---- MODULE Spec2Model ----
(***************************************************************************)
(* The cycle orchestration core of the Ralph ML Loop:                      *)
(*   RalphState.add_cycle            src/ralph_ml/config.py                *)
(*   Orchestrator.run, _should_stop,                                       *)
(*   _phase2_training, _phase3_analysis   src/ralph_ml/orchestrator.py     *)
(*                                                                         *)
(* Metric values are integers (one unit stands for one step of the metric, *)
(* e.g. 0.01); an optional value is a sequence: <<>> is None, <<v>> is the *)
(* number v.                                                               *)
(***************************************************************************)
EXTENDS Integers, Sequences, FiniteSets, TLC

\* ------------------------------------------------------------- bounds
\* Largest max_cycles of a configuration.
MaxCycles == 3
\* Metric values range over (0 - NegVals) .. MaxVal.
MaxVal == 2
NegVals == 1
\* Largest no_improvement_stop_cycles of a configuration.
MaxWindow == 2
\* Most cycles recorded in a state file found at construction.
PriorCycles == 2
\* Largest no_improvement_stop_cycles the stopping policy is called with.
PolicyWindow == 3
\* Largest timeout_seconds and heartbeat_seconds of a runner call.
MaxTimeout == 2
MaxHeartbeat == 2
\* Seconds a runner call is followed for.
MaxClock == MaxTimeout + 2

\* Lines of a training output and numeric-looking tokens of a line.
MaxLines == 2

MaxTokens == 2

\* SafeguardsConfig.min_improvement_delta, in metric units.
min_improvement_delta == 1

VARIABLES
    config,       \* RalphMLConfig: target metric and safeguards (immutable)
    state,        \* RalphState held by the Orchestrator
    disk,         \* the state file: <<>> when absent, else <<document>>
    pc,           \* position of run()
    cycle_num,    \* local cycle_num of run() (call counter in SpecAdd)
    train,        \* what the training subprocess of this cycle left behind
    artifacts,    \* the workspace files a direct _phase3_analysis call found
    workspace,    \* metrics.json in the workspace: absent, or its content
    index,        \* best_model_index.json: <<>> when absent, else <<payload>>
    runner,       \* a subprocess runner call: clock, process, position
    metrics,      \* MetricsResult returned by _phase2_training
    analysis,     \* decision action of the CycleAnalysis of _phase3_analysis
    raised,       \* an exception is propagating out of run()
    exit_reason   \* which break (or exception) left the loop

vars == <<config, state, disk, pc, cycle_num, train, artifacts, workspace,
          index, runner, metrics, analysis, raised, exit_reason>>

\* ------------------------------------------------------ optional values
None == <<>>

Some(v) == <<v>>

\* A JSON value that is neither null nor a number (a string such as "n/a").
Text == <<0, 0>>

\* isinstance(value, (int, float))
IsNumber(x) == Len(x) = 1

Values == (0 - NegVals)..MaxVal

OptValues == {None} \cup {Some(v) : v \in Values}

\* dict.get(key): None when the key is absent
Get(d, k) == IF k \in DOMAIN d THEN d[k] ELSE None

\* ------------------------------------------------------- configuration
\* TargetMetric.get_direction(): the optimisation direction of the target.
get_direction(target) == target.direction

\* TargetMetric.target_is_met(value): >= under maximize, <= under minimize.
target_is_met(target, v) ==
    IF get_direction(target) = "minimize" THEN v <= target.value
    ELSE v >= target.value

\* The target metrics of the test configurations: a built-in accuracy to
\* maximize, a built-in loss to minimize, and a custom metric name.
Targets ==
    { [name |-> "test_accuracy", value |-> 2, direction |-> "maximize"],
      [name |-> "val_loss", value |-> 0, direction |-> "minimize"],
      [name |-> "custom_metric", value |-> 2, direction |-> "maximize"] }

Configs ==
    [ target : Targets,
      max_cycles : 0..MaxCycles,
      no_improvement_stop_cycles : 1..MaxWindow,
      min_improvement_delta : {min_improvement_delta} ]

\* --------------------------------------------------------- data model
\* MetricsResult.ResultMetrics(): the four built-in fields, all None.
EmptyResult ==
    [test_accuracy |-> None, val_accuracy |-> None,
     train_loss |-> None, val_loss |-> None]

\* MetricsResult.ResultMetrics(**payload): a closed model, a key that is no
\* field of it is dropped.
ResultMetrics(payload) ==
    [k \in DOMAIN EmptyResult |-> Get(payload, k)]

\* MetricsResult(cycle, target, result)
MetricsResult(c, target, r) == [cycle |-> c, target |-> target, result |-> r]

\* snapshot.metrics.result.model_dump().get(snapshot.metrics.target.name)
TargetValue(snapshot) ==
    Get(snapshot.metrics.result, snapshot.metrics.target.name)

\* CycleSnapshot(cycle_number, metrics, analysis); analysis is kept as its
\* decision action ("None" for a snapshot built without analysis).
CycleSnapshot(n, m, a) == [cycle_number |-> n, metrics |-> m, analysis |-> a]

\* RalphState(config=...): the fresh state.
FreshState ==
    [current_cycle |-> 0, best_metric |-> 0, best_cycle |-> 0,
     history |-> <<>>, status |-> "idle",
     start_time |-> "None", last_update |-> "None"]

\* add_cycle advancing current_cycle only together with a new best_metric.
add_cycle_counts_improvements(st, snapshot) ==
    LET appended == [st EXCEPT !.history = Append(@, snapshot)]
        target_name == snapshot.metrics.target.name
        result == snapshot.metrics.result
    IN  IF /\ target_name \in DOMAIN result
           /\ IsNumber(result[target_name])
           /\ result[target_name][1] > st.best_metric
        THEN [appended EXCEPT !.best_metric = result[target_name][1],
                              !.best_cycle = snapshot.cycle_number,
                              !.current_cycle = snapshot.cycle_number]
        ELSE appended

\* add_cycle naming every cycle with a numeric value the best one while
\* best_metric keeps the greatest value.
add_cycle_best_is_latest(st, snapshot) ==
    LET appended == [st EXCEPT !.history = Append(@, snapshot),
                               !.current_cycle = snapshot.cycle_number]
        target_name == snapshot.metrics.target.name
        result == snapshot.metrics.result
    IN  IF target_name \in DOMAIN result /\ IsNumber(result[target_name])
        THEN [appended EXCEPT
                 !.best_metric = IF result[target_name][1] > st.best_metric
                                 THEN result[target_name][1]
                                 ELSE st.best_metric,
                 !.best_cycle = snapshot.cycle_number]
        ELSE appended

\* RalphState.add_cycle(snapshot)
add_cycle(st, snapshot) ==
    LET appended == [st EXCEPT !.history = Append(@, snapshot),
                               !.current_cycle = snapshot.cycle_number]
        target_name == snapshot.metrics.target.name
        result == snapshot.metrics.result
    IN  IF /\ target_name \in DOMAIN result
           /\ IsNumber(result[target_name])
           /\ result[target_name][1] > st.best_metric
        THEN [appended EXCEPT !.best_metric = result[target_name][1],
                              !.best_cycle = snapshot.cycle_number]
        ELSE appended

\* ----------------------------------------------------- stopping policy
\* state.history[-no_improvement_stop_cycles:]
RecentCycles(history, n) == SubSeq(history, Len(history) - n + 1, Len(history))

\* The numeric target values of the window, in order (non-numeric dropped).
NumericValues(recent) ==
    LET raw == [i \in 1..Len(recent) |-> TargetValue(recent[i])]
        numeric == SelectSeq(raw, IsNumber)
    IN  [i \in 1..Len(numeric) |-> numeric[i][1]]

\* should_stop without the length guard: the window is whatever history has.
should_stop_short_window(st, cfg) ==
    LET n == IF Len(st.history) < cfg.no_improvement_stop_cycles
             THEN Len(st.history) ELSE cfg.no_improvement_stop_cycles
        recent == RecentCycles(st.history, n)
        values == NumericValues(recent)
        deltas == [idx \in 1..(Len(values) - 1) |->
                     IF get_direction(cfg.target) = "minimize"
                     THEN values[idx] - values[idx + 1]
                     ELSE values[idx + 1] - values[idx]]
    IN  IF Len(values) = Len(recent)
        THEN /\ Len(deltas) > 0
             /\ \A i \in 1..Len(deltas) : deltas[i] < cfg.min_improvement_delta
        ELSE /\ Len(values) > 0
             /\ \A i \in 1..Len(values) : values[i] = values[1]

\* should_stop comparing the deltas with <= instead of <.
should_stop_not_strict(st, cfg) ==
    IF Len(st.history) >= cfg.no_improvement_stop_cycles
    THEN LET recent == RecentCycles(st.history, cfg.no_improvement_stop_cycles)
             values == NumericValues(recent)
             deltas == [idx \in 1..(Len(values) - 1) |->
                          IF get_direction(cfg.target) = "minimize"
                          THEN values[idx] - values[idx + 1]
                          ELSE values[idx + 1] - values[idx]]
         IN  IF Len(values) = Len(recent)
             THEN /\ Len(deltas) > 0
                  /\ \A i \in 1..Len(deltas) : deltas[i] <= cfg.min_improvement_delta
             ELSE /\ Len(values) > 0
                  /\ \A i \in 1..Len(values) : values[i] = values[1]
    ELSE FALSE

\* should_stop taking every delta as value[i] - value[i-1], whatever the
\* direction.
should_stop_no_direction(st, cfg) ==
    IF Len(st.history) >= cfg.no_improvement_stop_cycles
    THEN LET recent == RecentCycles(st.history, cfg.no_improvement_stop_cycles)
             values == NumericValues(recent)
             deltas == [idx \in 1..(Len(values) - 1) |->
                          values[idx + 1] - values[idx]]
         IN  IF Len(values) = Len(recent)
             THEN /\ Len(deltas) > 0
                  /\ \A i \in 1..Len(deltas) : deltas[i] < cfg.min_improvement_delta
             ELSE /\ Len(values) > 0
                  /\ \A i \in 1..Len(values) : values[i] = values[1]
    ELSE FALSE

\* should_stop taking an empty list of deltas for "no improvement".
should_stop_empty_deltas(st, cfg) ==
    IF Len(st.history) >= cfg.no_improvement_stop_cycles
    THEN LET recent == RecentCycles(st.history, cfg.no_improvement_stop_cycles)
             values == NumericValues(recent)
             deltas == [idx \in 1..(Len(values) - 1) |->
                          IF get_direction(cfg.target) = "minimize"
                          THEN values[idx] - values[idx + 1]
                          ELSE values[idx + 1] - values[idx]]
         IN  IF Len(values) = Len(recent)
             THEN \A i \in 1..Len(deltas) : deltas[i] < cfg.min_improvement_delta
             ELSE /\ Len(values) > 0
                  /\ \A i \in 1..Len(values) : values[i] = values[1]
    ELSE FALSE

\* Orchestrator._should_stop(): the no-improvement safeguard.
should_stop(st, cfg) ==
    IF Len(st.history) >= cfg.no_improvement_stop_cycles
    THEN LET recent == RecentCycles(st.history, cfg.no_improvement_stop_cycles)
             values == NumericValues(recent)
             deltas == [idx \in 1..(Len(values) - 1) |->
                          IF get_direction(cfg.target) = "minimize"
                          THEN values[idx] - values[idx + 1]
                          ELSE values[idx + 1] - values[idx]]
         IN  IF Len(values) = Len(recent)
             THEN /\ Len(deltas) > 0
                  /\ \A i \in 1..Len(deltas) : deltas[i] < cfg.min_improvement_delta
             ELSE /\ Len(values) > 0
                  /\ \A i \in 1..Len(values) : values[i] = values[1]
    ELSE FALSE

\* ------------------------------------------------------------ phase 2
\* (returncode, timed_out) of a runner: clean exit, failure, kill on timeout.
RunnerOutcomes ==
    { [returncode |-> 0, timed_out |-> FALSE],
      [returncode |-> 1, timed_out |-> FALSE],
      [returncode |-> 0 - 9, timed_out |-> TRUE] }

\* metrics.json as training leaves it: a document holding the target-named
\* value v under "result", or no such key.
MetricsDoc(name, v) == IF v = None THEN <<>> ELSE (name :> v)

\* What one training run leaves behind: the runner's outcome, metrics.json
\* (absent, not valid JSON, or a document) and the number on the line of its
\* output that names the target metric (None: no such line). The output of a
\* run that wrote a document has such a line, with 0, or has none.
TrainingRuns(target) ==
    { [outcome |-> o, file |-> f, doc |-> <<>>, stdout |-> s] :
        o \in RunnerOutcomes, f \in {"absent", "malformed"},
        s \in {None} \cup {Some(v) : v \in 0..MaxVal} }
    \cup
    { [outcome |-> o, file |-> "valid",
       doc |-> MetricsDoc(target.name, v), stdout |-> s] :
        o \in RunnerOutcomes, v \in OptValues, s \in {None, Some(0)} }

NoTrain ==
    [outcome |-> [returncode |-> 0, timed_out |-> FALSE],
     file |-> "none", doc |-> <<>>, stdout |-> None]

\* No metrics.json in the workspace.
NoFile == [file |-> "absent", doc |-> <<>>, cycle |-> 0]

\* A metrics.json that something other than a training command of this run
\* left in the workspace (an earlier run, the code generation agent): it
\* names a value that meets a maximize target. cycle is the cycle whose
\* training command wrote the file, 0 for such a file.
StaleMetrics(target) ==
    [file |-> "valid", doc |-> MetricsDoc(target.name, Some(MaxVal)),
     cycle |-> 0]

\* _phase2_training(): stale_metrics.unlink() when the file exists.
unlink_stale(ws) == NoFile

\* The workspace after the training subprocess of this cycle: the file it
\* wrote replaces what was there, and a run that writes none leaves it.
after_training(ws, t, cycle) ==
    IF t.file = "absent" THEN ws
    ELSE [file |-> t.file, doc |-> t.doc, cycle |-> cycle]

\* What _phase2_training() has to parse: the output of this training run
\* and the metrics.json the workspace then holds.
found(t, ws) == [t EXCEPT !.file = ws.file, !.doc = ws.doc]

\* json.load(metrics.json) raises on content that is not valid JSON.
Phase2Raises(t) == t.file = "malformed"

\* MetricsResult built from metrics.json: the four built-in fields by name,
\* then the target-named value when it is a number.
MetricsFromFile(t, target, cycle) ==
    LET target_value == Get(t.doc, target.name)
        payload == [k \in DOMAIN EmptyResult \cup
                          (IF IsNumber(target_value) THEN {target.name} ELSE {})
                      |-> Get(t.doc, k)]
    IN  MetricsResult(cycle, target, ResultMetrics(payload))

\* Orchestrator._parse_metrics_from_output(): the number of the line naming
\* the target is assigned to the field of that name (setattr on a name that
\* is no field raises inside the try and is dropped).
parse_metrics_from_output(t, target, cycle) ==
    MetricsResult(cycle, target,
                  IF target.name \in DOMAIN EmptyResult /\ IsNumber(t.stdout)
                  THEN [EmptyResult EXCEPT ![target.name] = t.stdout]
                  ELSE EmptyResult)

\* phase2_training leaving the cycle of parsed output at 0.
phase2_training_cycle_zero(t, target, cycle) ==
    IF t.file = "valid" THEN MetricsFromFile(t, target, cycle)
    ELSE parse_metrics_from_output(t, target, 0)

\* Orchestrator._phase2_training(): the MetricsResult of the cycle.
phase2_training(t, target, cycle) ==
    IF t.file = "valid" THEN MetricsFromFile(t, target, cycle)
    ELSE parse_metrics_from_output(t, target, cycle)

\* No MetricsResult yet (the one _parse_metrics_from_output starts from).
NoMetrics(target) == MetricsResult(0, target, EmptyResult)

\* ------------------------------------------------------------ phase 3
\* decision.json as the analysis phase finds it: absent, not valid JSON,
\* JSON that is no object, an object without "action", or an object with
\* this action.
DecisionFiles ==
    {"absent", "malformed", "wrong_type", "no_action",
     "continue", "stop", "STOP", "invalid_action"}

\* recommendations.json as the analysis phase finds it: absent, not valid
\* JSON, JSON that is neither a list nor an object, an object without a
\* "recommendations" list, an empty list, or a list with one recommendation.
RecommendationFiles ==
    {"absent", "malformed", "wrong_type", "no_list", "empty_list", "valid"}

\* What one analysis run leaves in the workspace.
AnalysisRuns ==
    [decision : DecisionFiles, recommendations : RecommendationFiles]

NoArtifacts == [decision |-> "none", recommendations |-> "none"]

\* No runner call is under way.
NoRunner == [pc |-> "none"]

\* str.lower() on the actions above
Lower(a) == IF a = "STOP" THEN "stop" ELSE a

\* The target_met of _phase3_analysis(): the target value is a number and
\* meets the target.
target_met(m, target) ==
    LET target_value == Get(m.result, target.name)
    IN  IsNumber(target_value) /\ target_is_met(target, target_value[1])

\* phase3_decision taking any action that decision.json names.
phase3_decision_any_action(m, target, decision_file) ==
    LET decision_action == IF target_met(m, target) THEN "stop" ELSE "continue"
    IN  IF decision_file \in {"absent", "malformed", "wrong_type", "no_action"}
        THEN decision_action
        ELSE Lower(decision_file)

\* phase3_decision whose fallback compares with >= under every direction.
phase3_decision_maximize_only(m, target, decision_file) ==
    LET target_value == Get(m.result, target.name)
        met == IsNumber(target_value) /\ target_value[1] >= target.value
        decision_action == IF met THEN "stop" ELSE "continue"
    IN  IF decision_file \in {"absent", "malformed", "wrong_type", "no_action"}
        THEN decision_action
        ELSE IF Lower(decision_file) \in {"continue", "stop"}
             THEN Lower(decision_file)
             ELSE decision_action

\* Orchestrator._phase3_analysis(): the decision action. The fallback is
\* "stop" when the target is met; decision.json overrides it only with
\* "continue" or "stop".
phase3_decision(m, target, decision_file) ==
    LET decision_action == IF target_met(m, target) THEN "stop" ELSE "continue"
    IN  IF decision_file \in {"absent", "malformed", "wrong_type", "no_action"}
        THEN decision_action
        ELSE IF Lower(decision_file) \in {"continue", "stop"}
             THEN Lower(decision_file)
             ELSE decision_action

\* Orchestrator._phase3_analysis(): the recommendations, as (action,
\* confidence); those of recommendations.json when it yields any, else the
\* one fallback recommendation.
phase3_recommendations(m, target, recommendations_file) ==
    IF recommendations_file = "valid"
    THEN <<[action |-> "from file", confidence |-> "medium"]>>
    ELSE <<[action |-> IF target_met(m, target) THEN "Finalize model"
                       ELSE "Analyze and iterate",
            confidence |-> "high"]>>

\* ------------------------------------------------------- persistence
\* float("inf") as a metric value: a float greater than every finite one
\* (what json.load reads from Infinity in metrics.json, or a caller passes).
Inf == MaxVal + 1

\* math.isfinite(v)
IsFinite(v) == v <= MaxVal

\* A float field in model_dump_json(): None and a float that is not finite
\* are both written as null, a finite float as a JSON number.
dump_float(x) == IF x = None \/ ~IsFinite(x[1]) THEN None ELSE x

\* CycleSnapshot in model_dump_json(): its ResultMetrics fields as JSON.
dump_snapshot(s) ==
    [s EXCEPT !.metrics.result = [k \in DOMAIN @ |-> dump_float(@[k])]]

\* RalphState.model_dump_json(): the JSON document of a state; best_metric
\* is a JSON number or null.
model_dump_json(st) ==
    [current_cycle |-> st.current_cycle,
     best_metric |-> dump_float(Some(st.best_metric)),
     best_cycle |-> st.best_cycle,
     history |-> [i \in 1..Len(st.history) |-> dump_snapshot(st.history[i])],
     status |-> st.status,
     start_time |-> st.start_time,
     last_update |-> st.last_update]

\* RalphState.model_validate(data) raises: best_metric is a required float
\* and null is no float (the Optional fields accept null).
ValidationFails(doc) == doc.best_metric = None

\* RalphState.model_validate(data) on a document that validates.
model_validate(doc) == [doc EXCEPT !.best_metric = @[1]]

\* Orchestrator._save_state(): the whole state document is rewritten.
save_state(st) == <<model_dump_json(st)>>

\* ------------------------------------------------- best-model index
\* What the capture steps of cycle n return: the architecture log (by its
\* log_path) and the source snapshot directory, both under the directory of
\* cycle n, and the copy of the model file when the workspace holds one.
Captured(n, has_model) ==
    [architecture_log |-> Some(n),
     best_model_artifact |-> IF has_model THEN Some(n) ELSE None,
     source_snapshot_dir |-> Some(n)]

\* CycleSnapshot(cycle_number, metrics, analysis, architecture_log,
\* best_model_artifact, source_snapshot_dir)
CycleSnapshotWithFiles(n, m, a, captured) ==
    [cycle_number |-> n, metrics |-> m, analysis |-> a,
     architecture_log |-> captured.architecture_log,
     best_model_artifact |-> captured.best_model_artifact,
     source_snapshot_dir |-> captured.source_snapshot_dir]

\* write_best_model_index reading the paths of the last snapshot.
write_best_model_index_last(st, target) ==
    LET payload ==
            [objective |-> [name |-> target.name,
                            direction |-> get_direction(target),
                            target_value |-> target.value],
             best_cycle |-> st.best_cycle,
             best_metric |-> st.best_metric,
             target_met |-> FALSE,
             best_model_artifact |-> None,
             best_architecture_log |-> None,
             best_source_snapshot |-> None]
    IN  IF st.best_cycle > 0 /\ Len(st.history) >= st.best_cycle
        THEN LET best_snapshot == st.history[Len(st.history)]
                 metric_value == Get(best_snapshot.metrics.result, target.name)
                 measured ==
                     IF IsNumber(metric_value)
                     THEN [payload EXCEPT
                             !.best_metric = metric_value[1],
                             !.target_met =
                                 target_is_met(target, metric_value[1])]
                     ELSE payload
             IN  [measured EXCEPT
                    !.best_model_artifact =
                        Get(best_snapshot, "best_model_artifact"),
                    !.best_architecture_log =
                        Get(best_snapshot, "architecture_log"),
                    !.best_source_snapshot =
                        Get(best_snapshot, "source_snapshot_dir")]
        ELSE payload

\* Orchestrator._write_best_model_index(): the payload of
\* best_model_index.json (without its timestamp). A snapshot built without
\* captured files reads as None under their names.
write_best_model_index(st, target) ==
    LET payload ==
            [objective |-> [name |-> target.name,
                            direction |-> get_direction(target),
                            target_value |-> target.value],
             best_cycle |-> st.best_cycle,
             best_metric |-> st.best_metric,
             target_met |-> FALSE,
             best_model_artifact |-> None,
             best_architecture_log |-> None,
             best_source_snapshot |-> None]
    IN  IF st.best_cycle > 0 /\ Len(st.history) >= st.best_cycle
        THEN LET best_snapshot == st.history[st.best_cycle]
                 metric_value == Get(best_snapshot.metrics.result, target.name)
                 measured ==
                     IF IsNumber(metric_value)
                     THEN [payload EXCEPT
                             !.best_metric = metric_value[1],
                             !.target_met =
                                 target_is_met(target, metric_value[1])]
                     ELSE payload
             IN  [measured EXCEPT
                    !.best_model_artifact =
                        Get(best_snapshot, "best_model_artifact"),
                    !.best_architecture_log =
                        Get(best_snapshot, "architecture_log"),
                    !.best_source_snapshot =
                        Get(best_snapshot, "source_snapshot_dir")]
        ELSE payload

\* ---------------------------------------------------------------- run
\* Orchestrator(config, state_path) with no state file: the fresh state.
Init ==
    /\ config \in Configs
    /\ state = FreshState
    /\ disk = <<>>
    /\ pc = "idle"
    /\ cycle_num = 0
    /\ train = NoTrain
    /\ artifacts = NoArtifacts
    /\ workspace \in {NoFile, StaleMetrics(config.target)}
    /\ index = <<>>
    /\ runner = NoRunner
    /\ metrics = NoMetrics(config.target)
    /\ analysis = "None"
    /\ raised = FALSE
    /\ exit_reason = "None"

\* run(): status and start_time are set before the loop is entered.
RunStart ==
    /\ pc = "idle"
    /\ state' = [state EXCEPT !.status = "running", !.start_time = "set"]
    /\ pc' = "loop"
    /\ UNCHANGED <<config, disk, cycle_num, train, artifacts, workspace,
                   index, runner, metrics, analysis, raised, exit_reason>>

\* SafeguardStop going round the loop again instead of leaving it.
SafeguardStopContinues ==
    /\ pc = "loop"
    /\ should_stop(state, config)
    /\ pc' = "loop"
    /\ exit_reason' = exit_reason
    /\ UNCHANGED <<config, state, disk, cycle_num, train, artifacts,
                   workspace, index, runner, metrics, analysis, raised>>

\* Top of the loop: the safeguard fires and the loop is left.
SafeguardStop ==
    /\ pc = "loop"
    /\ should_stop(state, config)
    /\ pc' = "finally"
    /\ exit_reason' = "policy"
    /\ UNCHANGED <<config, state, disk, cycle_num, train, artifacts,
                   workspace, index, runner, metrics, analysis, raised>>

\* StartCycle advancing current_cycle when the cycle starts, not when its
\* snapshot is appended.
StartCycleAdvances ==
    /\ pc = "loop"
    /\ ~should_stop(state, config)
    /\ cycle_num' = state.current_cycle + 1
    /\ state' = [state EXCEPT !.current_cycle = @ + 1]
    /\ train' = NoTrain
    /\ metrics' = NoMetrics(config.target)
    /\ analysis' = "None"
    /\ pc' = "phase1"
    /\ UNCHANGED <<config, disk, artifacts, workspace, index, runner, raised,
                   exit_reason>>

\* StartCycle entering the next cycle without asking the stopping policy.
StartCycleUnchecked ==
    /\ pc = "loop"
    /\ cycle_num' = state.current_cycle + 1
    /\ train' = NoTrain
    /\ metrics' = NoMetrics(config.target)
    /\ analysis' = "None"
    /\ pc' = "phase1"
    /\ UNCHANGED <<config, state, disk, artifacts, workspace, index, runner,
                   raised, exit_reason>>

\* Top of the loop: the next cycle starts.
StartCycle ==
    /\ pc = "loop"
    /\ ~should_stop(state, config)
    /\ cycle_num' = state.current_cycle + 1
    /\ train' = NoTrain
    /\ metrics' = NoMetrics(config.target)
    /\ analysis' = "None"
    /\ pc' = "phase1"
    /\ UNCHANGED <<config, state, disk, artifacts, workspace, index, runner,
                   raised, exit_reason>>

\* An exception that leaves run() without the cleanup of the finally block.
RaiseSkipsCleanup ==
    /\ raised' = TRUE
    /\ exit_reason' = "exception"
    /\ pc' = "done"

\* An exception leaves the try block: nothing else of the cycle runs.
Raise ==
    /\ raised' = TRUE
    /\ exit_reason' = "exception"
    /\ pc' = "finally"

\* Phase 1: the code generation subprocess returns with any outcome (only
\* logged) and may have left a metrics.json in the workspace, or it cannot
\* be started (Popen raises).
Phase1Codegen ==
    /\ pc = "phase1"
    /\ \/ /\ RunnerOutcomes # {}
          /\ workspace' \in {workspace, StaleMetrics(config.target)}
          /\ pc' = "snapshot"
          /\ UNCHANGED <<raised, exit_reason>>
       \/ Raise /\ UNCHANGED workspace
    /\ UNCHANGED <<config, state, disk, cycle_num, train, artifacts, index,
                   runner, metrics, analysis>>

\* After phase 1: _capture_source_snapshot and _capture_architecture_log
\* copy and fingerprint the source files into the cycle directory.
CaptureSources ==
    /\ pc = "snapshot"
    /\ pc' = "phase2"
    /\ UNCHANGED <<config, state, disk, cycle_num, train, artifacts,
                   workspace, index, runner, metrics, analysis, raised,
                   exit_reason>>

\* Phase 2 treating a failed or timed-out training run as fatal.
Phase2FailureFatal ==
    /\ pc = "phase2"
    /\ \/ \E t \in TrainingRuns(config.target) :
            LET ws == after_training(unlink_stale(workspace), t, cycle_num)
                seen == found(t, ws)
            IN  /\ train' = t
                /\ workspace' = ws
                /\ IF \/ Phase2Raises(seen)
                      \/ t.outcome.timed_out
                      \/ t.outcome.returncode # 0
                   THEN Raise /\ UNCHANGED metrics
                   ELSE /\ metrics' = phase2_training(seen, config.target,
                                                      state.current_cycle + 1)
                        /\ pc' = "capture"
                        /\ UNCHANGED <<raised, exit_reason>>
       \/ /\ Raise
          /\ workspace' = unlink_stale(workspace)
          /\ UNCHANGED <<train, metrics>>
    /\ UNCHANGED <<config, state, disk, cycle_num, artifacts, index, runner,
                   analysis>>

\* Phase 2 parsing whatever metrics.json the workspace holds after the
\* training run, without removing the one that was there before it.
Phase2KeepsStale ==
    /\ pc = "phase2"
    /\ \/ \E t \in TrainingRuns(config.target) :
            LET ws == after_training(workspace, t, cycle_num)
                seen == found(t, ws)
            IN  /\ train' = t
                /\ workspace' = ws
                /\ IF Phase2Raises(seen)
                   THEN Raise /\ UNCHANGED metrics
                   ELSE /\ metrics' = phase2_training(seen, config.target,
                                                      state.current_cycle + 1)
                        /\ pc' = "capture"
                        /\ UNCHANGED <<raised, exit_reason>>
       \/ /\ Raise
          /\ UNCHANGED <<workspace, train, metrics>>
    /\ UNCHANGED <<config, state, disk, cycle_num, artifacts, index, runner,
                   analysis>>

\* Phase 2: a metrics.json found in the workspace is removed, the training
\* subprocess returns, and the metrics are parsed from the metrics.json the
\* workspace then holds, else from the output; a metrics.json that is not
\* valid JSON raises, and so does a command that cannot be started.
Phase2Training ==
    /\ pc = "phase2"
    /\ \/ \E t \in TrainingRuns(config.target) :
            LET ws == after_training(unlink_stale(workspace), t, cycle_num)
                seen == found(t, ws)
            IN  /\ train' = t
                /\ workspace' = ws
                /\ IF Phase2Raises(seen)
                   THEN Raise /\ UNCHANGED metrics
                   ELSE /\ metrics' = phase2_training(seen, config.target,
                                                      state.current_cycle + 1)
                        /\ pc' = "capture"
                        /\ UNCHANGED <<raised, exit_reason>>
       \/ /\ Raise
          /\ workspace' = unlink_stale(workspace)
          /\ UNCHANGED <<train, metrics>>
    /\ UNCHANGED <<config, state, disk, cycle_num, artifacts, index, runner,
                   analysis>>

\* After phase 2: _capture_model_artifact copies the model file of the
\* workspace, if there is one, into the cycle directory.
CaptureModelArtifact ==
    /\ pc = "capture"
    /\ pc' = "phase3"
    /\ UNCHANGED <<config, state, disk, cycle_num, train, artifacts,
                   workspace, index, runner, metrics, analysis, raised,
                   exit_reason>>

\* Phase 3: the analysis subprocess returns with any outcome (only logged)
\* and the analysis is resolved from whatever decision.json it left, or the
\* subprocess cannot be started.
Phase3Analysis ==
    /\ pc = "phase3"
    /\ \/ /\ RunnerOutcomes # {}
          /\ analysis' \in { phase3_decision(metrics, config.target, f) :
                                f \in DecisionFiles }
          /\ pc' = "append"
          /\ UNCHANGED <<raised, exit_reason>>
       \/ Raise /\ UNCHANGED analysis
    /\ UNCHANGED <<config, state, disk, cycle_num, train, artifacts,
                   workspace, index, runner, metrics>>

\* AppendCycle leaving the save to the finally block.
AppendCycleNoSave ==
    /\ pc = "append"
    /\ state' = add_cycle(state, CycleSnapshot(cycle_num, metrics, analysis))
    /\ index' = <<write_best_model_index(state', config.target)>>
    /\ pc' = "decide"
    /\ UNCHANGED <<config, disk, cycle_num, train, artifacts, workspace,
                   runner, metrics, analysis, raised, exit_reason>>

\* The snapshot is created, appended with add_cycle, the state saved and
\* the best-model index rewritten.
AppendCycle ==
    /\ pc = "append"
    /\ state' = add_cycle(state, CycleSnapshot(cycle_num, metrics, analysis))
    /\ disk' = save_state(state')
    /\ index' = <<write_best_model_index(state', config.target)>>
    /\ pc' = "decide"
    /\ UNCHANGED <<config, cycle_num, train, artifacts, workspace, runner,
                   metrics, analysis, raised, exit_reason>>

\* Decide without the decision check: only max_cycles ends the loop.
DecideIgnoresStop ==
    /\ pc = "decide"
    /\ IF cycle_num >= config.max_cycles
       THEN pc' = "finally" /\ exit_reason' = "max_cycles"
       ELSE pc' = "loop" /\ UNCHANGED exit_reason
    /\ UNCHANGED <<config, state, disk, cycle_num, train, artifacts,
                   workspace, index, runner, metrics, analysis, raised>>

\* Decide with the max_cycles check off by one (> for >=).
DecideOffByOne ==
    /\ pc = "decide"
    /\ IF analysis = "stop"
       THEN pc' = "finally" /\ exit_reason' = "decision"
       ELSE IF cycle_num > config.max_cycles
            THEN pc' = "finally" /\ exit_reason' = "max_cycles"
            ELSE pc' = "loop" /\ UNCHANGED exit_reason
    /\ UNCHANGED <<config, state, disk, cycle_num, train, artifacts,
                   workspace, index, runner, metrics, analysis, raised>>

\* The decision check, then the max_cycles check.
Decide ==
    /\ pc = "decide"
    /\ IF analysis = "stop"
       THEN pc' = "finally" /\ exit_reason' = "decision"
       ELSE IF cycle_num >= config.max_cycles
            THEN pc' = "finally" /\ exit_reason' = "max_cycles"
            ELSE pc' = "loop" /\ UNCHANGED exit_reason
    /\ UNCHANGED <<config, state, disk, cycle_num, train, artifacts,
                   workspace, index, runner, metrics, analysis, raised>>

\* The finally block: status, last_update, the final save and the
\* best-model index.
Finally ==
    /\ pc = "finally"
    /\ state' = [state EXCEPT !.status = "completed", !.last_update = "set"]
    /\ disk' = save_state(state')
    /\ index' = <<write_best_model_index(state', config.target)>>
    /\ pc' = "done"
    /\ UNCHANGED <<config, cycle_num, train, artifacts, workspace, runner,
                   metrics, analysis, raised, exit_reason>>

Next ==
    \/ RunStart
    \/ SafeguardStop
    \/ StartCycle
    \/ Phase1Codegen
    \/ CaptureSources
    \/ Phase2Training
    \/ CaptureModelArtifact
    \/ Phase3Analysis
    \/ AppendCycle
    \/ Decide
    \/ Finally

Spec == Init /\ [][Next]_vars

\* ------------------------------------------------------------- resume
\* A state file whose content is no JSON document (json.load raises).
Unparseable == [text |-> "not json"]

\* json.load(f) returns a document.
Parses(content) == content # Unparseable

\* The state file exists and json.load or model_validate raises on it.
Unreadable(d) == d # <<>> /\ (~Parses(d[1]) \/ ValidationFails(d[1]))

\* load_state keeping what it can of a document that fails validation.
load_state_lenient(d) ==
    IF d = <<>> THEN FreshState
    ELSE IF ~Parses(d[1]) THEN FreshState
    ELSE IF ValidationFails(d[1]) THEN [d[1] EXCEPT !.best_metric = 0]
    ELSE model_validate(d[1])

\* Orchestrator._load_state(): the validated document of the state file when
\* there is one, else (no file, or an exception while loading) a fresh state.
load_state(d) ==
    IF d = <<>> THEN FreshState
    ELSE IF Unreadable(d) THEN FreshState
    ELSE model_validate(d[1])

\* The target values of the cycles recorded in a state file found at
\* construction: none, a finite number, or inf.
PriorValues == {None, Some(1), Some(Inf)}

\* The states an earlier run of the same target has after cycles 1..k, all
\* decided "continue".
RECURSIVE StatesAfter(_, _)
StatesAfter(k, target) ==
    IF k = 0
    THEN {[FreshState EXCEPT !.status = "running", !.start_time = "set"]}
    ELSE { add_cycle(st, CycleSnapshot(k,
                 MetricsResult(k, target,
                               ResultMetrics(MetricsDoc(target.name, v))),
                 "continue")) :
             st \in StatesAfter(k - 1, target), v \in PriorValues }

\* The state files an earlier run can have left: written after a cycle by a
\* process that was then killed (status "running"), or by the finally block.
StateFiles(target) ==
    LET running == UNION {StatesAfter(k, target) : k \in 1..PriorCycles}
        ended == UNION {StatesAfter(k, target) : k \in 0..PriorCycles}
    IN  running \cup
        {[st EXCEPT !.status = "completed", !.last_update = "set"] : st \in ended}

\* Orchestrator(config, state_path) with or without a state file.
InitResume ==
    /\ config \in Configs
    /\ disk \in {<<>>} \cup {save_state(st) : st \in StateFiles(config.target)}
    /\ state = load_state(disk)
    /\ pc = "idle"
    /\ cycle_num = 0
    /\ train = NoTrain
    /\ artifacts = NoArtifacts
    /\ workspace = NoFile
    /\ index = <<>>
    /\ runner = NoRunner
    /\ metrics = NoMetrics(config.target)
    /\ analysis = "None"
    /\ raised = FALSE
    /\ exit_reason = "None"

SpecResume == InitResume /\ [][Next]_vars

\* run() is one thread of control and every call it makes returns or
\* raises: whenever a step of run() is possible, one is taken.
SpecLive == Init /\ [][Next]_vars /\ WF_vars(Next)

\* ------------------------------------------------ add_cycle on its own
\* A caller (the tests of TestStateManagement) adds snapshots numbered
\* 1, 2, ... to a fresh RalphState, each built with
\* ResultMetrics(<target name>=v) for any v, None included.
AddCycleCall ==
    /\ pc = "idle"
    /\ cycle_num < MaxCycles
    /\ \E v \in OptValues :
          LET n == cycle_num + 1
              m == MetricsResult(n, config.target,
                                 ResultMetrics(MetricsDoc(config.target.name, v)))
          IN  state' = add_cycle(state, CycleSnapshot(n, m, "None"))
    /\ cycle_num' = cycle_num + 1
    /\ UNCHANGED <<config, disk, pc, train, artifacts, workspace, index,
                   runner, metrics, analysis, raised, exit_reason>>

SpecAdd == Init /\ [][AddCycleCall]_vars

\* ------------------------------------------------- save and reload
\* A caller adds the next snapshot to the state, its target value any float
\* a ResultMetrics field accepts (None, a finite number, or inf).
AddCycleFloat ==
    /\ pc = "idle"
    /\ cycle_num < MaxCycles
    /\ \E v \in OptValues \cup {Some(Inf)} :
          LET n == cycle_num + 1
              m == MetricsResult(n, config.target,
                                 ResultMetrics(MetricsDoc(config.target.name, v)))
          IN  state' = add_cycle(state, CycleSnapshot(n, m, "None"))
    /\ cycle_num' = cycle_num + 1
    /\ UNCHANGED <<config, disk, pc, train, artifacts, workspace, index,
                   runner, metrics, analysis, raised, exit_reason>>

\* Orchestrator._save_state() on the current state.
SaveState ==
    /\ pc = "idle"
    /\ disk' = save_state(state)
    /\ UNCHANGED <<config, state, pc, cycle_num, train, artifacts, workspace,
                   index, runner, metrics, analysis, raised, exit_reason>>

\* A new Orchestrator is constructed against the state file.
Reload ==
    /\ pc = "idle"
    /\ disk # <<>>
    /\ state' = load_state(disk)
    /\ cycle_num' = state'.current_cycle
    /\ UNCHANGED <<config, disk, pc, train, artifacts, workspace, index,
                   runner, metrics, analysis, raised, exit_reason>>

NextRoundTrip == AddCycleFloat \/ SaveState \/ Reload

SpecRoundTrip == Init /\ [][NextRoundTrip]_vars

\* ------------------------------------- construction on a state file
\* A state file is in place, left by an earlier run or damaged since, and
\* no Orchestrator has been constructed yet (state is not yet meaningful).
InitConstruct ==
    /\ config \in {c \in Configs : /\ c.max_cycles = MaxCycles
                                   /\ c.no_improvement_stop_cycles = MaxWindow}
    /\ disk \in {<<Unparseable>>}
                \cup {save_state(st) : st \in StateFiles(config.target)}
    /\ state = FreshState
    /\ pc = "new"
    /\ cycle_num = 0
    /\ train = NoTrain
    /\ artifacts = NoArtifacts
    /\ workspace = NoFile
    /\ index = <<>>
    /\ runner = NoRunner
    /\ metrics = NoMetrics(config.target)
    /\ analysis = "None"
    /\ raised = FALSE
    /\ exit_reason = "None"

\* Orchestrator(config, state_path): self.state = self._load_state(); no
\* exception leaves _load_state.
Construct ==
    /\ pc = "new"
    /\ state' = load_state(disk)
    /\ cycle_num' = state'.current_cycle
    /\ raised' = FALSE
    /\ pc' = "idle"
    /\ UNCHANGED <<config, disk, train, artifacts, workspace, index, runner,
                   metrics, analysis, exit_reason>>

NextConstruct == Construct \/ AddCycleCall \/ SaveState

SpecConstruct == InitConstruct /\ [][NextConstruct]_vars

\* ----------------------------------------- stopping policy on its own
\* The configurations the stopping policy is called with.
PolicyConfigs ==
    [ target : Targets,
      max_cycles : {MaxCycles},
      no_improvement_stop_cycles : 1..PolicyWindow,
      min_improvement_delta : {min_improvement_delta} ]

\* A fresh Orchestrator under one of these configurations.
InitPolicy ==
    /\ config \in PolicyConfigs
    /\ state = FreshState
    /\ disk = <<>>
    /\ pc = "idle"
    /\ cycle_num = 0
    /\ train = NoTrain
    /\ artifacts = NoArtifacts
    /\ workspace = NoFile
    /\ index = <<>>
    /\ runner = NoRunner
    /\ metrics = NoMetrics(config.target)
    /\ analysis = "None"
    /\ raised = FALSE
    /\ exit_reason = "None"

\* A caller (the tests of test_orchestrator_stop_policy.py) asks
\* should_stop() about the history built so far; exit_reason records a
\* true answer as "policy".
ShouldStopCall ==
    /\ pc = "idle"
    /\ pc' = "checked"
    /\ exit_reason' = IF should_stop(state, config) THEN "policy" ELSE "None"
    /\ UNCHANGED <<config, state, disk, cycle_num, train, artifacts,
                   workspace, index, runner, metrics, analysis, raised>>

NextPolicy == AddCycleCall \/ ShouldStopCall

SpecPolicy == InitPolicy /\ [][NextPolicy]_vars

\* ------------------------------------------ phases/analysis.py utilities
\* load_analysis_from_workspace(): the recommendations it returns. None
\* for an absent file and for one that json.load rejects; otherwise the list
\* of the Recommendation objects built from the items that are objects,
\* which is empty when the document holds no such list.
load_recommendations(recommendations_file) ==
    IF recommendations_file \in {"absent", "malformed"} THEN None
    ELSE IF recommendations_file = "valid"
         THEN Some(<<[action |-> "from file", confidence |-> "medium"]>>)
         ELSE Some(<<>>)

\* load_analysis_from_workspace(): the decision_data it returns, None for an
\* absent file and for one that json.load rejects.
load_decision(decision_file) ==
    IF decision_file \in {"absent", "malformed"} THEN None
    ELSE Some(decision_file)

\* build_fallback_analysis(): one recommendation and the decision action.
build_fallback_analysis(m, target) ==
    LET met == target_met(m, m.target)
    IN  [recommendations |->
             <<[action |-> IF met THEN "Finalize model"
                           ELSE "Analyze and iterate",
                confidence |-> "high"]>>,
         action |-> IF met THEN "stop" ELSE "continue"]

\* merge_analysis_with_fallback(): loaded recommendations replace those of
\* the fallback unless they are None; the action of decision_data replaces
\* the fallback's when it is "continue" or "stop".
merge_analysis_with_fallback(fallback, recommendations, decision_data) ==
    [recommendations |->
         IF recommendations # None THEN recommendations[1]
         ELSE fallback.recommendations,
     action |->
         IF /\ decision_data # None
            /\ decision_data[1] \notin {"wrong_type", "no_action"}
            /\ Lower(decision_data[1]) \in {"continue", "stop"}
         THEN Lower(decision_data[1])
         ELSE fallback.action]

\* The analysis the three utilities give for these workspace files.
analysis_from_workspace(m, target, a) ==
    merge_analysis_with_fallback(build_fallback_analysis(m, target),
                                 load_recommendations(a.recommendations),
                                 load_decision(a.decision))

\* -------------------------------------------------- phase 3 on its own
\* A caller (the tests of test_orchestrator_phase3_analysis.py) builds the
\* metrics of cycle 1 with any target value and calls _phase3_analysis().
InitAnalysis ==
    /\ config \in Configs
    /\ state = FreshState
    /\ disk = <<>>
    /\ pc = "phase3"
    /\ cycle_num = 1
    /\ train = NoTrain
    /\ artifacts = NoArtifacts
    /\ workspace = NoFile
    /\ index = <<>>
    /\ runner = NoRunner
    /\ metrics \in { MetricsResult(1, config.target,
                          ResultMetrics(MetricsDoc(config.target.name, v))) :
                        v \in OptValues }
    /\ analysis = "None"
    /\ raised = FALSE
    /\ exit_reason = "None"

\* _phase3_analysis(): the (mocked) analysis subprocess returns with any
\* outcome and has left these files in the workspace; the decision action is
\* resolved from them.
AnalysisCall ==
    /\ pc = "phase3"
    /\ \E o \in RunnerOutcomes, a \in AnalysisRuns :
          /\ artifacts' = a
          /\ analysis' = phase3_decision(metrics, config.target, a.decision)
    /\ pc' = "append"
    /\ UNCHANGED <<config, state, disk, cycle_num, train, workspace, index,
                   runner, metrics, raised, exit_reason>>

SpecAnalysis == InitAnalysis /\ [][AnalysisCall]_vars

\* A caller loads the analysis of cycle 1 with the utilities of
\* phases/analysis.py: load_analysis_from_workspace, build_fallback_analysis
\* and merge_analysis_with_fallback.
AnalysisUtilsCall ==
    /\ pc = "phase3"
    /\ \E a \in AnalysisRuns :
          /\ artifacts' = a
          /\ analysis' = analysis_from_workspace(metrics, config.target, a).action
    /\ pc' = "append"
    /\ UNCHANGED <<config, state, disk, cycle_num, train, workspace, index,
                   runner, metrics, raised, exit_reason>>

SpecAnalysisUtils == InitAnalysis /\ [][AnalysisUtilsCall]_vars

\* ------------------------------- phase 3 inline and by the utilities
\* analysis.md as the analysis phase finds it: absent, blank, or a text.
SummaryFiles == {"absent", "blank", "text"}

\* Orchestrator._phase3_analysis(): the summary is the stripped text of
\* analysis.md when there is any, else the generated sentence.
phase3_summary(summary_file) ==
    IF summary_file = "text" THEN "from file" ELSE "generated"

\* load_analysis_from_workspace(): the summary it returns.
load_summary(summary_file) ==
    IF summary_file = "text" THEN Some("from file") ELSE None

\* merge_analysis_with_fallback(): the loaded summary unless it is None;
\* the fallback's is the generated sentence of build_fallback_analysis().
merge_summary(summary) ==
    IF summary # None THEN summary[1] ELSE "generated"

\* The CycleAnalysis _phase3_analysis() builds inline from the three files.
phase3_inline(m, target, a) ==
    [summary |-> phase3_summary(a.summary),
     recommendations |-> phase3_recommendations(m, target, a.recommendations),
     action |-> phase3_decision(m, target, a.decision)]

\* The CycleAnalysis the utilities of phases/analysis.py build from them.
phase3_utils(m, target, a) ==
    [summary |-> merge_summary(load_summary(a.summary)),
     recommendations |->
         analysis_from_workspace(m, target, a).recommendations,
     action |-> analysis_from_workspace(m, target, a).action]

\* A caller builds the analysis of cycle 1 both ways from the same files.
AnalysisBothCall ==
    /\ pc = "phase3"
    /\ \E a \in AnalysisRuns, sm \in SummaryFiles :
          LET files == [decision |-> a.decision,
                        recommendations |-> a.recommendations,
                        summary |-> sm]
          IN  /\ artifacts' = files
              /\ analysis' = [inline |-> phase3_inline(metrics, config.target,
                                                       files),
                              utils |-> phase3_utils(metrics, config.target,
                                                     files)]
    /\ pc' = "append"
    /\ UNCHANGED <<config, state, disk, cycle_num, train, workspace, index,
                   runner, metrics, raised, exit_reason>>

SpecAnalysisBoth == InitAnalysis /\ [][AnalysisBothCall]_vars

\* ------------------------------------ phase 3 over consecutive cycles
\* The workspace is one directory for the whole run: decision.json and
\* recommendations.json as they are, each with the cycle whose analysis
\* subprocess wrote it (0 for a file that is absent).
NoAnalysisFiles ==
    [decision |-> "absent", recommendations |-> "absent",
     decision_cycle |-> 0, recommendations_cycle |-> 0]

\* What the analysis subprocess of one cycle does to each file: it writes
\* it anew, or leaves it alone ("untouched": it timed out, failed, or did
\* not produce the file).
AgentWrites ==
    [decision : (DecisionFiles \ {"absent"}) \cup {"untouched"},
     recommendations : (RecommendationFiles \ {"absent"}) \cup {"untouched"}]

\* The two files after the analysis subprocess of this cycle has returned.
after_analysis(files, w, cycle) ==
    [decision |-> IF w.decision = "untouched" THEN files.decision
                  ELSE w.decision,
     recommendations |-> IF w.recommendations = "untouched"
                         THEN files.recommendations
                         ELSE w.recommendations,
     decision_cycle |-> IF w.decision = "untouched" THEN files.decision_cycle
                        ELSE cycle,
     recommendations_cycle |-> IF w.recommendations = "untouched"
                               THEN files.recommendations_cycle
                               ELSE cycle]

\* The metrics a training phase hands to the analysis phase of this cycle.
CycleMetrics(cycle, target) ==
    { MetricsResult(cycle, target,
                    ResultMetrics(MetricsDoc(target.name, v))) :
        v \in {None, Some(0), Some(MaxVal)} }

InitCycles ==
    /\ config \in {c \in Configs : /\ c.max_cycles = MaxCycles
                                   /\ c.no_improvement_stop_cycles = MaxWindow}
    /\ state = FreshState
    /\ disk = <<>>
    /\ pc = "phase3"
    /\ cycle_num = 1
    /\ train = NoTrain
    /\ artifacts = NoAnalysisFiles
    /\ workspace = NoFile
    /\ index = <<>>
    /\ runner = NoRunner
    /\ metrics \in CycleMetrics(1, config.target)
    /\ analysis = "None"
    /\ raised = FALSE
    /\ exit_reason = "None"

\* _phase3_analysis() of one cycle: the analysis subprocess runs in the
\* workspace and returns, then the recommendations and the decision are
\* built from the files the workspace holds.
AnalysisPhase ==
    /\ pc = "phase3"
    /\ \E w \in AgentWrites :
          LET files == after_analysis(artifacts, w, cycle_num)
          IN  /\ artifacts' = files
              /\ analysis' =
                     [action |-> phase3_decision(metrics, config.target,
                                                 files.decision),
                      recommendations |->
                          phase3_recommendations(metrics, config.target,
                                                 files.recommendations)]
    /\ pc' = "append"
    /\ UNCHANGED <<config, state, disk, cycle_num, train, workspace, index,
                   runner, metrics, raised, exit_reason>>

\* run(): the loop goes on to the next cycle, whose code generation and
\* training leave the analysis files of the workspace alone.
NextAnalysisCycle ==
    /\ pc = "append"
    /\ cycle_num < config.max_cycles
    /\ cycle_num' = cycle_num + 1
    /\ metrics' \in CycleMetrics(cycle_num + 1, config.target)
    /\ analysis' = "None"
    /\ pc' = "phase3"
    /\ UNCHANGED <<config, state, disk, train, artifacts, workspace, index,
                   runner, raised, exit_reason>>

NextCycles ==
    \/ AnalysisPhase
    \/ NextAnalysisCycle

SpecCycles == InitCycles /\ [][NextCycles]_vars

\* ---------------------------------------- phases/training.py utilities
\* The keys a metrics document is read under.
MetricKeys ==
    {"test_accuracy", "best_test_accuracy", "val_accuracy",
     "best_val_accuracy", "train_loss", "val_loss", "custom_metric"}

\* The keys the test documents vary for this target: the accuracy and its
\* "best" variant, a loss, and the target's own name.
VariedKeys(target) ==
    {"test_accuracy", "best_test_accuracy", "train_loss", target.name}

\* JSON values by type: a missing key, an object, a list, anything else.
Absent == [is |-> "absent"]

Dict(fields) == [is |-> "dict", fields |-> fields]

List(entries) == [is |-> "list", entries |-> entries]

Other == [is |-> "other"]

\* isinstance(value, dict)
IsDict(x) == x.is = "dict"

\* A JSON object holding the number v under every key of present, except
\* that best_test_accuracy holds v + 1.
Object(present, v) ==
    [k \in MetricKeys |->
        IF k \notin present THEN None
        ELSE IF k = "best_test_accuracy" THEN Some(v + 1) ELSE Some(v)]

\* The numbers of the test documents by where they stand, so that the
\* parsed value tells its source.
SourceValue ==
    [result |-> 0, final_epoch |-> 2, last_entry |-> 0 - 1,
     first_entry |-> 3, unused |-> 4]

\* A metrics.json object: result is the "result" key, top the metric keys of
\* the top level, final_epoch and history the keys of these names.
MetricsObject(result, top, final_epoch, history) ==
    [kind |-> "object", result |-> result, top |-> top,
     final_epoch |-> final_epoch, history |-> history]

\* The final_epoch values of the test documents.
FinalEpochs(target) ==
    {Absent, Other}
    \cup { Dict(Object(present, SourceValue.final_epoch)) :
             present \in SUBSET (VariedKeys(target) \ {"best_test_accuracy"}) }

\* The history values of the test documents: none, not a list, an empty
\* list, a list whose last entry is no object, and two-entry lists whose
\* first entry holds every key.
Histories(target) ==
    LET keys == VariedKeys(target) \ {"best_test_accuracy"}
        first == Dict(Object(keys, SourceValue.first_entry))
    IN  {Absent, Other, List(<<>>), List(<<first, Other>>)}
        \cup { List(<<first, Dict(Object(present, SourceValue.last_entry))>>) :
                 present \in SUBSET keys }

\* metrics.json documents with numeric values: the metric keys nested under
\* "result" (the top level then holds other numbers under them) or at the
\* top level.
NumericDocs(target) ==
    LET unused == Object(VariedKeys(target), SourceValue.unused)
        none == Object({}, 0)
    IN  { MetricsObject(Dict(Object(present, SourceValue.result)), unused,
                        final_epoch, history) :
            present \in SUBSET VariedKeys(target),
            final_epoch \in FinalEpochs(target),
            history \in Histories(target) }
        \cup
        { MetricsObject(result, Object(present, SourceValue.result),
                        final_epoch, history) :
            result \in {Absent}, present \in SUBSET VariedKeys(target),
            final_epoch \in FinalEpochs(target),
            history \in Histories(target) }
        \cup
        { MetricsObject(Other, none, Absent, Absent) }

\* metrics.json objects holding a string under one metric key.
NonNumericDocs(target) ==
    { MetricsObject(Absent, [Object({}, 0) EXCEPT ![k] = Text], Absent, Absent) :
        k \in VariedKeys(target) }

\* What parse_metrics_from_file may find at metrics_path: no file, a file
\* that is not valid JSON, valid JSON whose top level is a list or a
\* number, or one of the objects above.
MetricsFiles(target) ==
    { [kind |-> k] : k \in {"absent", "malformed", "list", "number"} }
    \cup NumericDocs(target) \cup NonNumericDocs(target)

\* The outcome of a call: the value returned, or an exception raised.
Returns(v) == [raised |-> FALSE, value |-> v]

Raises == [raised |-> TRUE, value |-> None]

\* parse_metrics_from_file falling back to the first history entry.
parse_metrics_first_entry(doc, target) ==
    IF doc.kind \in {"absent", "malformed"} THEN Returns(None)
    ELSE IF doc.kind # "object" THEN Raises
    ELSE
    LET raw_result == doc.result
        result_source == IF IsDict(raw_result) THEN raw_result.fields
                         ELSE doc.top
        final_epoch == doc.final_epoch
        history == doc.history
        has_history == history.is = "list" /\ history.entries # <<>>
        last == IF has_history
                THEN history.entries[1] ELSE Other
        last_entry == IF IsDict(last) THEN last.fields ELSE <<>>
        Or(v, other) == IF v = None THEN other ELSE v
        InEpoch(v, k) ==
            IF v = None /\ IsDict(final_epoch)
            THEN Get(final_epoch.fields, k) ELSE v
        InHistory(v, k) ==
            IF v = None /\ has_history THEN Get(last_entry, k) ELSE v
        test_accuracy ==
            InEpoch(Or(Get(result_source, "test_accuracy"),
                       Get(result_source, "best_test_accuracy")),
                    "test_accuracy")
        train_loss ==
            InHistory(InEpoch(Get(result_source, "train_loss"), "train_loss"),
                      "train_loss")
        val_loss ==
            InHistory(InEpoch(Get(result_source, "val_loss"), "val_loss"),
                      "val_loss")
        val_accuracy ==
            InEpoch(Or(Get(result_source, "val_accuracy"),
                       Get(result_source, "best_val_accuracy")),
                    "val_accuracy")
        target_name == target.name
        target_value ==
            InHistory(InEpoch(Get(result_source, target_name), target_name),
                      target_name)
        base == [test_accuracy |-> test_accuracy,
                 val_accuracy |-> val_accuracy,
                 train_loss |-> train_loss, val_loss |-> val_loss]
        result_payload ==
            [k \in DOMAIN base \cup
                   (IF IsNumber(target_value) THEN {target_name} ELSE {}) |->
                IF k = target_name /\ IsNumber(target_value)
                THEN target_value ELSE base[k]]
    IN  IF \E k \in DOMAIN EmptyResult : result_payload[k] = Text
        THEN Raises
        ELSE Returns(Some(MetricsResult(0, target,
                                        ResultMetrics(result_payload))))

\* parse_metrics_from_file(metrics_path, target_metric). A top level that
\* is no object has no .get (AttributeError); a string under a float field
\* fails the validation of ResultMetrics (ValidationError).
parse_metrics_from_file(doc, target) ==
    IF doc.kind \in {"absent", "malformed"} THEN Returns(None)
    ELSE IF doc.kind # "object" THEN Raises
    ELSE
    LET raw_result == doc.result
        result_source == IF IsDict(raw_result) THEN raw_result.fields
                         ELSE doc.top
        final_epoch == doc.final_epoch
        history == doc.history
        has_history == history.is = "list" /\ history.entries # <<>>
        last == IF has_history
                THEN history.entries[Len(history.entries)] ELSE Other
        last_entry == IF IsDict(last) THEN last.fields ELSE <<>>
        Or(v, other) == IF v = None THEN other ELSE v
        InEpoch(v, k) ==
            IF v = None /\ IsDict(final_epoch)
            THEN Get(final_epoch.fields, k) ELSE v
        InHistory(v, k) ==
            IF v = None /\ has_history THEN Get(last_entry, k) ELSE v
        test_accuracy ==
            InEpoch(Or(Get(result_source, "test_accuracy"),
                       Get(result_source, "best_test_accuracy")),
                    "test_accuracy")
        train_loss ==
            InHistory(InEpoch(Get(result_source, "train_loss"), "train_loss"),
                      "train_loss")
        val_loss ==
            InHistory(InEpoch(Get(result_source, "val_loss"), "val_loss"),
                      "val_loss")
        val_accuracy ==
            InEpoch(Or(Get(result_source, "val_accuracy"),
                       Get(result_source, "best_val_accuracy")),
                    "val_accuracy")
        target_name == target.name
        target_value ==
            InHistory(InEpoch(Get(result_source, target_name), target_name),
                      target_name)
        base == [test_accuracy |-> test_accuracy,
                 val_accuracy |-> val_accuracy,
                 train_loss |-> train_loss, val_loss |-> val_loss]
        result_payload ==
            [k \in DOMAIN base \cup
                   (IF IsNumber(target_value) THEN {target_name} ELSE {}) |->
                IF k = target_name /\ IsNumber(target_value)
                THEN target_value ELSE base[k]]
    IN  IF \E k \in DOMAIN EmptyResult : result_payload[k] = Text
        THEN Raises
        ELSE Returns(Some(MetricsResult(0, target,
                                        ResultMetrics(result_payload))))

\* Tests of parse_metrics_from_file: a configuration and a metrics.json.
InitParse ==
    /\ config \in {c \in Configs : /\ c.max_cycles = MaxCycles
                                   /\ c.no_improvement_stop_cycles = MaxWindow}
    /\ state = FreshState
    /\ disk = <<>>
    /\ pc = "phase2"
    /\ cycle_num = 1
    /\ train = NoTrain
    /\ artifacts = NoArtifacts
    /\ workspace \in MetricsFiles(config.target)
    /\ index = <<>>
    /\ runner = NoRunner
    /\ metrics = None
    /\ analysis = "None"
    /\ raised = FALSE
    /\ exit_reason = "None"

\* One call of parse_metrics_from_file on the metrics.json of the workspace.
ParseMetricsCall ==
    /\ pc = "phase2"
    /\ LET outcome == parse_metrics_from_file(workspace, config.target)
       IN  /\ metrics' = outcome.value
           /\ raised' = outcome.raised
    /\ pc' = "parsed"
    /\ UNCHANGED <<config, state, disk, cycle_num, train, artifacts,
                   workspace, index, runner, analysis, exit_reason>>

SpecParse == InitParse /\ [][ParseMetricsCall]_vars

\* ----------------------------------- training output, line by line
\* A token of a line that a number pattern can match: a number, or dots
\* without a digit ("." or "..."), which r"[0-9.]+" matches and float()
\* rejects.
Dots == Text

Tokens == {Some(v) : v \in 0..MaxVal} \cup {Dots}

TokenLists == UNION {[1..n -> Tokens] : n \in 0..MaxTokens}

\* The metric names a line contains, lower-cased.
Mentions ==
    {{}, {"test_accuracy"}, {"val_accuracy"}, {"val_loss"},
     {"custom_metric"}, {"test_accuracy", "val_accuracy"}}

\* A line of output: the metric names in it and its tokens, left to right.
Lines == [mentions : Mentions, tokens : TokenLists]

Outputs == UNION {[1..n -> Lines] : n \in 1..MaxLines}

\* re.findall(r"[0-9]+(?:\.[0-9]+)?", line): the numbers of the line.
findall(line) == SelectSeq(line.tokens, IsNumber)

\* re.search(r"[0-9.]+", line): the first token of the line, None without.
search(line) == IF line.tokens = <<>> THEN None ELSE <<line.tokens[1]>>

\* setattr(metrics.result, name, value) inside try/except: a name that is
\* no field of ResultMetrics raises and is dropped.
setattr_result(r, name, v) ==
    IF name \in DOMAIN r THEN [r EXCEPT ![name] = v] ELSE r

\* The block for the target's name: the last number of the line.
parse_target_line(r, line, target) ==
    IF target.name \in line.mentions /\ findall(line) # <<>>
    THEN setattr_result(r, target.name, findall(line)[Len(findall(line))])
    ELSE r

\* metrics.result.<name> = float(match.group()): float() of dots raises
\* inside the try and nothing is assigned.
assign_match(r, name, line) ==
    IF search(line) # None /\ IsNumber(search(line)[1])
    THEN [r EXCEPT ![name] = search(line)[1]]
    ELSE r

\* The block for the literals: test_accuracy, else val_accuracy.
parse_common_line(r, line) ==
    IF "test_accuracy" \in line.mentions
    THEN assign_match(r, "test_accuracy", line)
    ELSE IF "val_accuracy" \in line.mentions
         THEN assign_match(r, "val_accuracy", line)
         ELSE r

\* One iteration of the loop over output.split("\n").
parse_line(r, line, target) ==
    parse_common_line(parse_target_line(r, line, target), line)

RECURSIVE parse_lines(_, _, _)
parse_lines(r, output, target) ==
    IF output = <<>> THEN r
    ELSE parse_lines(parse_line(r, Head(output), target), Tail(output),
                     target)

\* parse_metrics_from_output(output, target_metric) of phases/training.py
\* and Orchestrator._parse_metrics_from_output(output): the same loop.
parse_metrics_from_text(output, target) ==
    MetricsResult(0, target, parse_lines(EmptyResult, output, target))

\* Tests of parse_metrics_from_output: a configuration and an output.
InitOutput ==
    /\ config \in {c \in Configs : /\ c.max_cycles = MaxCycles
                                   /\ c.no_improvement_stop_cycles = MaxWindow}
    /\ state = FreshState
    /\ disk = <<>>
    /\ pc = "phase2"
    /\ cycle_num = 1
    /\ train \in {[outcome |-> "ok", file |-> "absent", doc |-> <<>>,
                   stdout |-> o] : o \in Outputs}
    /\ artifacts = NoArtifacts
    /\ workspace = NoFile
    /\ index = <<>>
    /\ runner = NoRunner
    /\ metrics = None
    /\ analysis = "None"
    /\ raised = FALSE
    /\ exit_reason = "None"

\* One call of parse_metrics_from_output on the output of the training run.
ParseOutputCall ==
    /\ pc = "phase2"
    /\ metrics' = Some(parse_metrics_from_text(train.stdout, config.target))
    /\ pc' = "parsed"
    /\ UNCHANGED <<config, state, disk, cycle_num, train, artifacts,
                   workspace, index, runner, analysis, raised, exit_reason>>

SpecOutput == InitOutput /\ [][ParseOutputCall]_vars

\* ------------------------------------------ runtime/process_runner.py
\* The other variables while a runner call is followed.
RunnerOnly(r) ==
    /\ runner' = r
    /\ UNCHANGED <<config, state, disk, pc, cycle_num, train, artifacts,
                   workspace, index, metrics, analysis, raised, exit_reason>>

\* A call of run_with_heartbeat ("heartbeat") or run_training_with_live_logs
\* ("live") before subprocess.Popen: now is time.time() - start in seconds,
\* proc the subprocess ("none", "running", "exited" by itself, "killed"),
\* alive whether it is still a process of the system, out what is unread
\* on its pipes ("none", a "line", a "partial" line
\* without newline), wait_until the end of the current wait slice.
RunnerCalls ==
    { [mode |-> m, timeout_seconds |-> t, heartbeat_seconds |-> h,
       startable |-> b, pc |-> "start", now |-> 0, proc |-> "none",
       alive |-> FALSE, returncode |-> None, exited_at |-> None, out |-> "none",
       wait_until |-> 0, timed_out |-> FALSE, result |-> None] :
        m \in {"heartbeat", "live"}, t \in 1..MaxTimeout,
        h \in 1..MaxHeartbeat, b \in BOOLEAN }

InitRunner ==
    /\ config \in {c \in Configs : /\ c.max_cycles = MaxCycles
                                   /\ c.no_improvement_stop_cycles = MaxWindow
                                   /\ c.target.name = "test_accuracy"}
    /\ state = FreshState
    /\ disk = <<>>
    /\ pc = "phase2"
    /\ cycle_num = 1
    /\ train = NoTrain
    /\ artifacts = NoArtifacts
    /\ workspace = NoFile
    /\ index = <<>>
    /\ runner \in RunnerCalls
    /\ metrics = NoMetrics(config.target)
    /\ analysis = "None"
    /\ raised = FALSE
    /\ exit_reason = "None"

\* subprocess.Popen(command, ...): raises (FileNotFoundError,
\* PermissionError) when the command cannot be started.
Popen ==
    /\ runner.pc = "start"
    /\ IF runner.startable
       THEN RunnerOnly([runner EXCEPT !.proc = "running", !.alive = TRUE,
                                      !.pc = "check"])
       ELSE RunnerOnly([runner EXCEPT !.pc = "raised"])

\* A second passes, at any point of the call.
Tick ==
    /\ runner.pc \notin {"none", "start", "raised", "done"}
    /\ runner.now < MaxClock
    /\ RunnerOnly([runner EXCEPT !.now = @ + 1])

\* The subprocess ends by itself, with exit code 0 or 1.
ProcessExits ==
    /\ runner.proc = "running"
    /\ \E code \in {0, 1} :
         RunnerOnly([runner EXCEPT !.proc = "exited",
                                   !.alive = FALSE,
                                   !.returncode = Some(code),
                                   !.exited_at = Some(runner.now)])

\* The subprocess writes to a pipe: a whole line, text without a newline,
\* or the newline that ends such text.
ProcessWrites ==
    /\ runner.proc = "running"
    /\ runner.out # "line"
    /\ \E o \in (IF runner.out = "none" THEN {"line", "partial"}
                 ELSE {"line"}) :
         RunnerOnly([runner EXCEPT !.out = o])

\* A subprocess that was sent SIGKILL terminates.
ProcessDies ==
    /\ runner.proc = "killed"
    /\ runner.alive
    /\ RunnerOnly([runner EXCEPT !.alive = FALSE])

\* proc.kill(): sends SIGKILL to a subprocess that is still running; it
\* terminates some time later.
kill(r) ==
    IF r.proc = "running"
    THEN [r EXCEPT !.proc = "killed", !.returncode = Some(0 - 9)]
    ELSE r

\* min(heartbeat_seconds, max(1, int(remaining)))
wait_chunk(r, remaining) ==
    LET longest == IF remaining > 1 THEN remaining ELSE 1
    IN  IF r.heartbeat_seconds < longest THEN r.heartbeat_seconds
        ELSE longest

\* run_with_heartbeat, top of the loop: on remaining <= 0 the subprocess is
\* killed and its output collected, else the next wait slice is chosen.
HeartbeatCheck ==
    /\ runner.mode = "heartbeat"
    /\ runner.pc = "check"
    /\ LET remaining == runner.timeout_seconds - runner.now
       IN  IF remaining <= 0
           THEN RunnerOnly([kill(runner) EXCEPT !.timed_out = TRUE,
                                                !.pc = "collect"])
           ELSE RunnerOnly([runner EXCEPT
                              !.wait_until = runner.now
                                             + wait_chunk(runner, remaining),
                              !.pc = "wait"])

\* run_with_heartbeat after the kill: proc.communicate() returns once the
\* subprocess has terminated.
HeartbeatCollect ==
    /\ runner.mode = "heartbeat"
    /\ runner.pc = "collect"
    /\ ~runner.alive
    /\ RunnerOnly([runner EXCEPT !.pc = "return"])

\* run_with_heartbeat, proc.communicate(timeout=wait_chunk): returns once
\* the subprocess has ended, raises TimeoutExpired at the end of the slice.
HeartbeatWait ==
    /\ runner.mode = "heartbeat"
    /\ runner.pc = "wait"
    /\ \/ /\ runner.proc # "running"
          /\ RunnerOnly([runner EXCEPT !.pc = "return"])
       \/ /\ runner.now >= runner.wait_until
          /\ RunnerOnly([runner EXCEPT !.pc = "check"])

\* run_training_with_live_logs, top of the loop: on elapsed >
\* timeout_seconds the subprocess is killed and the loop left.
LiveCheck ==
    /\ runner.mode = "live"
    /\ runner.pc = "check"
    /\ IF runner.now > runner.timeout_seconds
       THEN RunnerOnly([kill(runner) EXCEPT !.timed_out = TRUE,
                                            !.pc = "drain"])
       ELSE RunnerOnly([runner EXCEPT !.wait_until = runner.now + 1,
                                      !.pc = "select"])

\* sel.select(timeout=1.0): returns when a pipe is readable (data, or end of
\* file once the subprocess has ended) or after one second.
LiveSelect ==
    /\ runner.mode = "live"
    /\ runner.pc = "select"
    /\ \/ /\ runner.out # "none" \/ runner.proc # "running"
          /\ RunnerOnly([runner EXCEPT !.pc = "readline"])
       \/ /\ runner.now >= runner.wait_until
          /\ runner.out = "none" /\ runner.proc = "running"
          /\ RunnerOnly([runner EXCEPT !.pc = "poll"])

\* key.fileobj.readline(): returns a line, or what is left at end of file;
\* on text without a newline it waits for the newline or the end of file.
LiveReadline ==
    /\ runner.mode = "live"
    /\ runner.pc = "readline"
    /\ runner.out # "partial" \/ runner.proc # "running"
    /\ RunnerOnly([runner EXCEPT !.out = "none", !.pc = "poll"])

\* proc.poll(): the loop is left once the subprocess has ended.
LivePoll ==
    /\ runner.mode = "live"
    /\ runner.pc = "poll"
    /\ IF runner.proc # "running"
       THEN RunnerOnly([runner EXCEPT !.pc = "drain"])
       ELSE RunnerOnly([runner EXCEPT !.pc = "check"])

\* run_training_with_live_logs returning without proc.wait().
LiveDrainNoWait ==
    /\ runner.mode = "live"
    /\ runner.pc = "drain"
    /\ runner.proc # "running"
    /\ RunnerOnly([runner EXCEPT !.out = "none", !.pc = "return"])

\* After the loop: the rest of both pipes is read up to end of file and
\* proc.wait() called, which returns once the subprocess has terminated.
LiveDrain ==
    /\ runner.mode = "live"
    /\ runner.pc = "drain"
    /\ runner.proc # "running"
    /\ ~runner.alive
    /\ RunnerOnly([runner EXCEPT !.out = "none", !.pc = "return"])

\* return (proc.returncode or 0), stdout, stderr, elapsed_total, timed_out
RunnerReturn ==
    /\ runner.pc = "return"
    /\ RunnerOnly([runner EXCEPT
                     !.result = Some([returncode |-> runner.returncode[1],
                                      stdout |-> "text", stderr |-> "text",
                                      elapsed_seconds |-> runner.now,
                                      timed_out |-> runner.timed_out]),
                     !.pc = "done"])

NextRunner ==
    \/ Popen
    \/ Tick
    \/ ProcessExits
    \/ ProcessWrites
    \/ ProcessDies
    \/ HeartbeatCheck
    \/ HeartbeatCollect
    \/ HeartbeatWait
    \/ LiveCheck
    \/ LiveSelect
    \/ LiveReadline
    \/ LivePoll
    \/ LiveDrain
    \/ RunnerReturn

SpecRunner == InitRunner /\ [][NextRunner]_vars

\* -------------------------------------- best-model index on its own
\* The end of a cycle and the end of run() with the files the capture steps
\* copied: run() builds the snapshot of each cycle from any metrics and any
\* captured files, appends it, saves the state and rewrites the index.
InitIndex ==
    /\ config \in {c \in Configs : /\ c.max_cycles = MaxCycles
                                   /\ c.no_improvement_stop_cycles = MaxWindow}
    /\ state = [FreshState EXCEPT !.status = "running", !.start_time = "set"]
    /\ disk = <<>>
    /\ pc = "append"
    /\ cycle_num = 1
    /\ train = NoTrain
    /\ artifacts = NoArtifacts
    /\ workspace = NoFile
    /\ index = <<>>
    /\ runner = NoRunner
    /\ metrics = NoMetrics(config.target)
    /\ analysis = "None"
    /\ raised = FALSE
    /\ exit_reason = "None"

\* The end of cycle cycle_num: snapshot, add_cycle, save, index.
IndexAppendCycle ==
    /\ pc = "append"
    /\ cycle_num <= config.max_cycles
    /\ \E v \in OptValues, has_model \in BOOLEAN :
          LET m == MetricsResult(cycle_num, config.target,
                     ResultMetrics(MetricsDoc(config.target.name, v)))
              snapshot == CycleSnapshotWithFiles(cycle_num, m, "continue",
                              Captured(cycle_num, has_model))
          IN  /\ metrics' = m
              /\ state' = add_cycle(state, snapshot)
    /\ disk' = save_state(state')
    /\ index' = <<write_best_model_index(state', config.target)>>
    /\ cycle_num' = cycle_num + 1
    /\ UNCHANGED <<config, pc, train, artifacts, workspace, runner, analysis,
                   raised, exit_reason>>

\* The finally block after any number of cycles.
IndexFinally ==
    /\ pc = "append"
    /\ state' = [state EXCEPT !.status = "completed", !.last_update = "set"]
    /\ disk' = save_state(state')
    /\ index' = <<write_best_model_index(state', config.target)>>
    /\ pc' = "done"
    /\ UNCHANGED <<config, cycle_num, train, artifacts, workspace, runner,
                   metrics, analysis, raised, exit_reason>>

NextIndex == IndexAppendCycle \/ IndexFinally

SpecIndex == InitIndex /\ [][NextIndex]_vars

\* ------------------------------------------------------------- claims
History == state.history

AllContinue == \A i \in 1..Len(History) : History[i].analysis = "continue"

\* C1: once a cycle whose decision is "stop" has been appended and saved, no
\* later cycle is started: that snapshot stays the last one, the run is at
\* the decision check or past the loop, and current_cycle is its number,
\* whatever max_cycles is.
C1_StopEndsRun ==
    \A i \in 1..Len(History) :
        History[i].analysis = "stop" =>
            /\ i = Len(History)
            /\ pc \in {"decide", "finally", "done"}
            /\ state.current_cycle = History[i].cycle_number

\* A run ended by a "stop" decision before max_cycles was reached.
C1_Witness ==
    /\ pc = "done"
    /\ exit_reason = "decision"
    /\ Len(History) >= 1
    /\ History[Len(History)].analysis = "stop"
    /\ state.current_cycle < config.max_cycles

\* C2: from a fresh state with max_cycles >= 1, history never holds more than
\* max_cycles snapshots, and a run in which every decision is "continue" and
\* the stopping policy never fires ends with current_cycle = max_cycles and
\* exactly max_cycles snapshots.
C2_MaxCyclesEndsRun ==
    config.max_cycles >= 1 =>
        /\ Len(History) <= config.max_cycles
        /\ (pc = "done" /\ ~raised /\ exit_reason # "policy" /\ AllContinue) =>
               /\ state.current_cycle = config.max_cycles
               /\ Len(History) = config.max_cycles

\* A run of MaxCycles cycles, all "continue", ended by the max_cycles check.
C2_Witness ==
    /\ pc = "done"
    /\ exit_reason = "max_cycles"
    /\ config.max_cycles = MaxCycles
    /\ AllContinue
    /\ Len(History) = MaxCycles

InCycle ==
    pc \in {"phase1", "snapshot", "phase2", "capture", "phase3", "append",
            "decide"}

\* C3: at every exit of run() status is "completed", last_update is set and
\* the state file holds the in-memory state; while the loop and its cycles
\* are executing status is "running".
C3_ExitCompleted ==
    /\ pc = "done" =>
          /\ state.status = "completed"
          /\ state.last_update = "set"
          /\ disk = save_state(state)
    /\ (pc = "loop" \/ InCycle) => state.status = "running"

\* A run on a reloaded state that the stopping policy ended before any cycle.
C3_Witness ==
    /\ pc = "done"
    /\ exit_reason = "policy"
    /\ cycle_num = 0
    /\ Len(History) >= 1

\* C4, at exit: after an exception in cycle n the state file holds cycles
\* 1..n-1 and current_cycle = n-1, and no snapshot of cycle n exists.
C4_AtExit ==
    (pc = "done" /\ exit_reason = "exception") =>
        /\ raised
        /\ disk # <<>>
        /\ disk[1].current_cycle = cycle_num - 1
        /\ Len(disk[1].history) = cycle_num - 1
        /\ \A i \in 1..Len(disk[1].history) : disk[1].history[i].cycle_number = i
        /\ Len(History) = cycle_num - 1

\* C4, the final save: it leaves history, current_cycle, best_metric and
\* best_cycle as the save after cycle n-1 wrote them (as they are in a fresh
\* state when n = 1).
C4_FinalSave ==
    (pc = "finally" /\ raised) =>
        LET before == IF disk = <<>> THEN model_dump_json(FreshState) ELSE disk[1]
        IN  /\ disk' # <<>>
            /\ disk'[1].history = before.history
            /\ disk'[1].current_cycle = before.current_cycle
            /\ disk'[1].best_metric = before.best_metric
            /\ disk'[1].best_cycle = before.best_cycle

\* C4: an unexpected exception in a phase of cycle n propagates out of run(),
\* no snapshot of cycle n is appended, and the state saved at exit holds
\* exactly cycles 1..n-1 with current_cycle = n-1 and the best_metric and
\* best_cycle saved after cycle n-1.
C4_ExceptionKeepsLastGoodCycle == [](C4_AtExit) /\ [][C4_FinalSave]_vars

\* A run in which a phase of the third cycle raised after the second cycle
\* had set a best_metric.
C4_Witness ==
    /\ pc = "done"
    /\ raised
    /\ cycle_num = 3
    /\ Len(History) = 2
    /\ state.best_cycle = 2

\* C5, positions: before the append the cycle has no snapshot, after it
\* exactly one, and current_cycle has advanced by one.
C5_OneSnapshot ==
    /\ pc \in {"phase1", "snapshot", "phase2", "capture", "phase3",
              "append"} =>
          /\ Len(History) = cycle_num - 1
          /\ state.current_cycle = cycle_num - 1
    /\ pc = "decide" =>
          /\ Len(History) = cycle_num
          /\ state.current_cycle = cycle_num
          /\ History[cycle_num].cycle_number = cycle_num

\* C5, metrics: with no metrics.json and no line naming the target in the
\* output, every metric value of the cycle is None.
C5_AllNone ==
    (pc \in {"capture", "phase3", "append", "decide"}
       /\ train.file = "absent" /\ train.stdout = None) =>
        /\ metrics.result = EmptyResult
        /\ pc = "decide" => History[cycle_num].metrics.result = EmptyResult

\* C5, steps: a training subprocess that returned, with any exit code and
\* timed_out flag, is followed by phase 3 (unless metrics.json cannot be
\* parsed), a returned analysis subprocess by the append, and the append adds
\* one snapshot and advances current_cycle by one.
C5_Steps ==
    /\ (pc = "phase2" /\ train'.file \in {"absent", "valid"}) =>
           (pc' = "capture" /\ ~raised')
    /\ pc = "capture" => (pc' = "phase3" /\ ~raised')
    /\ (pc = "phase3" /\ ~raised') => pc' = "append"
    /\ pc = "append" =>
           /\ pc' = "decide"
           /\ Len(state'.history) = Len(History) + 1
           /\ state'.current_cycle = state.current_cycle + 1

\* C5: for every cycle whose phase subprocesses return, with any exit code
\* and any timed_out flag, exactly one snapshot is appended and current_cycle
\* advances by one; a training run that leaves no metrics file and no
\* recognizable output yields a snapshot whose metric values are all None.
C5_FailuresNonFatal == [](C5_OneSnapshot /\ C5_AllNone) /\ [][C5_Steps]_vars

\* A timed-out training run that left nothing, and its all-None snapshot.
C5_Witness ==
    /\ pc = "decide"
    /\ train.outcome.timed_out
    /\ train.file = "absent"
    /\ train.stdout = None
    /\ Len(History) = cycle_num
    /\ History[cycle_num].metrics.result = EmptyResult

\* The target values of history, in order.
HistoryValues == [i \in 1..Len(History) |-> TargetValue(History[i])]

AllNumeric == \A i \in 1..Len(History) : IsNumber(HistoryValues[i])

Maximize == get_direction(config.target) = "maximize"

Minimize == get_direction(config.target) = "minimize"

\* C6: after k calls of add_cycle with snapshots numbered 1..k on a fresh
\* state, current_cycle = k and len(history) = k, whatever the target values
\* are (numeric, None or missing).
C6_AddCycleCounts ==
    /\ state.current_cycle = cycle_num
    /\ Len(History) = cycle_num

\* MaxCycles calls, the first with a None (or missing) value, a later one
\* with a number.
C6_Witness ==
    /\ cycle_num = MaxCycles
    /\ state.current_cycle = MaxCycles
    /\ HistoryValues[1] = None
    /\ \/ \E i \in 2..Len(History) : IsNumber(HistoryValues[i])
       \/ config.target.name \notin DOMAIN EmptyResult

\* C7 as stated: under a maximize target, for every sequence of numeric
\* target values, best_metric is the maximum of the values and best_cycle the
\* 1-based index of its first occurrence.
C7_BestIsMaximum ==
    (Maximize /\ Len(History) >= 1 /\ AllNumeric) =>
        /\ \A i \in 1..Len(History) : HistoryValues[i][1] <= state.best_metric
        /\ state.best_cycle \in 1..Len(History)
        /\ HistoryValues[state.best_cycle][1] = state.best_metric
        /\ \A i \in 1..(state.best_cycle - 1) :
               HistoryValues[i][1] < state.best_metric

\* C8 as stated: under a minimize target, for every sequence of numeric
\* target values, best_metric is the minimum of the values and best_cycle a
\* cycle that produced it.
C8_BestIsMinimum ==
    (Minimize /\ Len(History) >= 1 /\ AllNumeric) =>
        /\ \A i \in 1..Len(History) : HistoryValues[i][1] >= state.best_metric
        /\ state.best_cycle \in 1..Len(History)
        /\ HistoryValues[state.best_cycle][1] = state.best_metric

\* C9 as stated: best_cycle > 0 if and only if history holds at least one
\* snapshot whose target-named value is a number.
C9_BestCycleIffNumeric ==
    state.best_cycle > 0 <=>
        \E i \in 1..Len(History) : IsNumber(HistoryValues[i])

\* C10 as stated: a run under a maximize target whose max_cycles = n cycles
\* yield numeric target values v1..vn, all with decision "continue", ends
\* with current_cycle = n, best_metric = max(v) and best_cycle a cycle of
\* that maximum.
C10_RunTracksBest ==
    (pc = "done" /\ ~raised /\ Maximize /\ AllContinue /\ AllNumeric
       /\ config.max_cycles >= 1 /\ Len(History) = config.max_cycles) =>
        /\ state.current_cycle = config.max_cycles
        /\ \A i \in 1..Len(History) : HistoryValues[i][1] <= state.best_metric
        /\ state.best_cycle \in 1..Len(History)
        /\ HistoryValues[state.best_cycle][1] = state.best_metric

\* The four resumable fields of a state document.
Resumable(doc) ==
    <<doc.current_cycle, doc.best_metric, doc.best_cycle, doc.history>>

\* C11: whenever the loop is about to start another cycle after a completed
\* one (and already at the decision and max_cycles checks of that cycle),
\* the state file is the document of the in-memory state: its current_cycle,
\* best_metric, best_cycle and history are those the state serialises to.
C11_SavedAfterEveryCycle ==
    (pc \in {"decide", "loop"} /\ cycle_num >= 1) =>
        /\ disk # <<>>
        /\ Resumable(disk[1]) = Resumable(model_dump_json(state))
        /\ Len(disk[1].history) = cycle_num

\* The loop about to start a third cycle, the second having set the best.
C11_Witness ==
    /\ pc = "loop"
    /\ cycle_num = 2
    /\ state.best_cycle = 2
    /\ ~should_stop(state, config)

\* C12 as stated: saving a state reachable by add_cycle and reloading it
\* gives back its current_cycle, best_metric, best_cycle and history, and
\* saving the reloaded state again writes the same four values.
C12_RoundTrip ==
    LET saved == save_state(state)
        reloaded == load_state(saved)
    IN  /\ Resumable(reloaded) = Resumable(state)
        /\ Resumable(save_state(reloaded)[1]) = Resumable(saved[1])

\* The same round trip for states whose metric values are all finite.
FiniteState ==
    /\ IsFinite(state.best_metric)
    /\ \A i \in 1..Len(History) : \A k \in DOMAIN History[i].metrics.result :
           LET x == History[i].metrics.result[k]
           IN  x = None \/ IsFinite(x[1])

C12_RoundTripFinite == FiniteState => C12_RoundTrip

BeforeAppend ==
    pc \in {"phase1", "snapshot", "phase2", "capture", "phase3", "append"}

\* C13 as stated: a run on an Orchestrator constructed against a state file
\* with current_cycle = c holds the file's history, best_metric and
\* best_cycle until its first new snapshot, numbers its first new cycle
\* c + 1, and appends each new snapshot after the ones of the file.
C13_ContinuesFromFile ==
    /\ (disk # <<>> /\ (pc \in {"idle", "loop"} \/ BeforeAppend)) =>
           Resumable(model_dump_json(state)) = Resumable(disk[1])
    /\ (disk # <<>> /\ BeforeAppend) =>
           cycle_num = disk[1].current_cycle + 1
    /\ pc = "decide" =>
           /\ Len(History) = cycle_num
           /\ History[cycle_num].cycle_number = cycle_num

\* The same for the state files that _load_state accepts.
FileLoads == disk # <<>> /\ ~ValidationFails(disk[1])

C13_ContinuesFromLoadedFile ==
    /\ (FileLoads /\ (pc \in {"idle", "loop"} \/ BeforeAppend)) =>
           Resumable(model_dump_json(state)) = Resumable(disk[1])
    /\ (FileLoads /\ BeforeAppend) =>
           cycle_num = disk[1].current_cycle + 1

\* Snapshots in history are never changed or reordered: history changes
\* only by one snapshot being appended, and best_metric and best_cycle
\* change only to the values of that snapshot.
C13_AppendOnly ==
    [][\/ /\ state'.history = state.history
          /\ state'.best_metric = state.best_metric
          /\ state'.best_cycle = state.best_cycle
       \/ /\ Len(state'.history) = Len(state.history) + 1
          /\ SubSeq(state'.history, 1, Len(state.history)) = state.history
          /\ \/ /\ state'.best_metric = state.best_metric
                /\ state'.best_cycle = state.best_cycle
             \/ /\ state'.best_metric > state.best_metric
                /\ state'.best_cycle = cycle_num]_vars

\* The answer of the should_stop call.
Checked == pc = "checked"

Stopped == exit_reason = "policy"

StopCycles == config.no_improvement_stop_cycles

\* The raw target values of the last no_improvement_stop_cycles snapshots.
WindowValues ==
    [i \in 1..StopCycles |-> HistoryValues[Len(History) - StopCycles + i]]

WindowNumeric == \A i \in 1..StopCycles : IsNumber(WindowValues[i])

\* C14: should_stop returns false whenever history is shorter than
\* no_improvement_stop_cycles, whatever history holds (nothing, identical
\* values, None values).
C14_ShortHistoryNeverStops ==
    (Checked /\ Len(History) < StopCycles) => ~Stopped

\* Two identical values under a window of three: no stop.
C14_Witness ==
    /\ Checked
    /\ StopCycles = 3
    /\ Len(History) = 2
    /\ HistoryValues[1] = Some(1)
    /\ HistoryValues[2] = Some(1)
    /\ ~Stopped

\* C15: under a maximize target, when the last N >= 2 snapshots all have
\* numeric target values, should_stop is true exactly when every delta
\* value[i] - value[i-1] inside the window is below min_improvement_delta;
\* older snapshots play no part.
C15_MaximizeDeltas ==
    (Checked /\ Maximize /\ StopCycles >= 2 /\ Len(History) >= StopCycles
       /\ WindowNumeric) =>
        (Stopped <=>
            \A i \in 2..StopCycles :
                WindowValues[i][1] - WindowValues[i - 1][1]
                    < config.min_improvement_delta)

\* A window of three whose first delta reaches min_improvement_delta and
\* whose second does not: no stop.
C15_Witness ==
    /\ Checked /\ Maximize /\ StopCycles = 3 /\ Len(History) = 3
    /\ WindowNumeric
    /\ WindowValues[2][1] - WindowValues[1][1] = config.min_improvement_delta
    /\ WindowValues[3][1] - WindowValues[2][1] < config.min_improvement_delta
    /\ ~Stopped

\* C16: under a minimize target, when the last N >= 2 snapshots all have
\* numeric target values, should_stop is true exactly when every delta
\* value[i-1] - value[i] inside the window is below min_improvement_delta.
C16_MinimizeDeltas ==
    (Checked /\ Minimize /\ StopCycles >= 2 /\ Len(History) >= StopCycles
       /\ WindowNumeric) =>
        (Stopped <=>
            \A i \in 2..StopCycles :
                WindowValues[i - 1][1] - WindowValues[i][1]
                    < config.min_improvement_delta)

\* A rising loss over a window of two, after an older decrease: stop.
C16_Witness ==
    /\ Checked /\ Minimize /\ StopCycles = 2 /\ Len(History) = 3
    /\ HistoryValues[1] = Some(2)
    /\ HistoryValues[2] = Some(0)
    /\ HistoryValues[3] = Some(1)
    /\ Stopped

\* C17 as stated: when a value of the window is missing or not a number,
\* should_stop is true exactly when all raw values of the window, the
\* placeholders included, are pairwise equal.
C17_RawValuesEqual ==
    (Checked /\ Len(History) >= StopCycles /\ ~WindowNumeric) =>
        (Stopped <=>
            \A i, j \in 1..StopCycles : WindowValues[i] = WindowValues[j])

\* What should_stop does on such a window: it is true exactly when the
\* window holds a number and all its numbers are equal.
C17_NumericValuesEqual ==
    (Checked /\ Len(History) >= StopCycles /\ ~WindowNumeric) =>
        (Stopped <=>
            /\ \E i \in 1..StopCycles : IsNumber(WindowValues[i])
            /\ \A i, j \in 1..StopCycles :
                   (IsNumber(WindowValues[i]) /\ IsNumber(WindowValues[j]))
                       => WindowValues[i] = WindowValues[j])

\* The target value of the cycle's metrics is a number that meets the
\* target: >= under maximize, <= under minimize.
TargetMet ==
    LET v == Get(metrics.result, config.target.name)
    IN  /\ IsNumber(v)
        /\ Maximize => v[1] >= config.target.value
        /\ Minimize => v[1] <= config.target.value

NoArtifactsPresent ==
    artifacts.decision = "absent" /\ artifacts.recommendations = "absent"

\* C19: with no analysis artifacts present the decision is "stop" exactly
\* when the target value is a number that meets the target under the
\* comparator of its direction, "continue" otherwise (a missing value
\* included), and the analysis has exactly one recommendation, of
\* confidence "high", "Finalize model" if met and "Analyze and iterate" if
\* not.
C19_FallbackDecision ==
    (pc = "append" /\ NoArtifactsPresent) =>
        LET recommendations ==
                phase3_recommendations(metrics, config.target,
                                       artifacts.recommendations)
        IN  /\ analysis = "stop" <=> TargetMet
            /\ analysis = "continue" <=> ~TargetMet
            /\ Len(recommendations) = 1
            /\ recommendations[1].confidence = "high"
            /\ recommendations[1].action =
                   IF TargetMet THEN "Finalize model" ELSE "Analyze and iterate"

\* A loss below its target with no artifacts: the fallback decides "stop".
C19_Witness ==
    /\ pc = "append"
    /\ NoArtifactsPresent
    /\ Minimize
    /\ Get(metrics.result, config.target.name) = Some(0 - 1)
    /\ analysis = "stop"

\* C20 as stated: a metrics.json that is not valid JSON is treated like an
\* absent one (the metrics are parsed from the output, no exception, the
\* cycle goes on to its snapshot), and so are a recommendations.json and a
\* decision.json that are not valid JSON.
C20_MalformedIsAbsent ==
    /\ train.file = "malformed" =>
           /\ ~raised
           /\ pc \in {"capture", "phase3", "append", "decide", "loop",
                     "finally", "done"}
           /\ metrics = parse_metrics_from_output(train, config.target, cycle_num)
    /\ pc = "phase3" =>
           /\ phase3_decision(metrics, config.target, "malformed")
                  = phase3_decision(metrics, config.target, "absent")
           /\ phase3_recommendations(metrics, config.target, "malformed")
                  = phase3_recommendations(metrics, config.target, "absent")

\* The part of C20 that concerns the analysis files.
C20_MalformedAnalysisIsAbsent ==
    pc = "phase3" =>
        /\ phase3_decision(metrics, config.target, "malformed")
               = phase3_decision(metrics, config.target, "absent")
        /\ phase3_recommendations(metrics, config.target, "malformed")
               = phase3_recommendations(metrics, config.target, "absent")

\* The analysis the utilities of phases/analysis.py returned.
MergedAnalysis == analysis_from_workspace(metrics, config.target, artifacts)

UnusableRecommendations ==
    artifacts.recommendations \in {"malformed", "wrong_type", "no_list"}

\* C21 as stated: when recommendations.json is not valid JSON, or its top
\* level is neither a list nor an object holding a recommendations list,
\* load_analysis_from_workspace reports the recommendations as absent, and
\* the merged analysis keeps the fallback's recommendation (so it has at
\* least one).
C21_UnusableRecommendationsAbsent ==
    (pc = "append" /\ UnusableRecommendations) =>
        /\ load_recommendations(artifacts.recommendations) = None
        /\ MergedAnalysis.recommendations
               = build_fallback_analysis(metrics, config.target).recommendations
        /\ Len(MergedAnalysis.recommendations) >= 1

\* The part of C21 about a recommendations.json that is not valid JSON.
C21_MalformedRecommendationsAbsent ==
    (pc = "append" /\ artifacts.recommendations = "malformed") =>
        /\ load_recommendations(artifacts.recommendations) = None
        /\ MergedAnalysis.recommendations
               = build_fallback_analysis(metrics, config.target).recommendations
        /\ Len(MergedAnalysis.recommendations) >= 1

\* --------------------------------------------------------------- C22
\* C22: the metrics of cycle n never come from a metrics.json that was in
\* the workspace before the training command of cycle n started: once phase
\* 2 has returned, a metrics.json in the workspace is the one this cycle's
\* training wrote, the metrics of a run that wrote one are parsed from it,
\* and the metrics of a run that wrote none come from its output.
C22_NoStaleMetrics ==
    pc \in {"capture", "phase3", "append", "decide"} =>
        /\ workspace.file # "absent" => workspace.cycle = cycle_num
        /\ train.file = "valid" =>
               /\ workspace.doc = train.doc
               /\ metrics = MetricsFromFile(train, config.target, cycle_num)
        /\ train.file = "absent" =>
               /\ workspace.file = "absent"
               /\ metrics
                    = parse_metrics_from_output(train, config.target, cycle_num)

\* Cycle 1 recorded a value that only a metrics.json can hold, so that file
\* was in the workspace when cycle 2 trained; cycle 2 wrote no file and no
\* metric line, and its metrics are empty.
C22_Witness ==
    /\ pc = "phase3"
    /\ cycle_num = 2
    /\ TargetValue(History[1]) = Some(0 - 1)
    /\ train.file = "absent"
    /\ train.stdout = None
    /\ metrics.result = EmptyResult

\* ---------------------------------------------------------- C23 .. C26
\* The result object of a metrics document: the nested "result" when it is
\* an object, else the top level.
ResultObject(doc) == IF IsDict(doc.result) THEN doc.result.fields ELSE doc.top

\* The value under key k of final_epoch, None when there is none.
FinalEpochValue(doc, k) ==
    IF IsDict(doc.final_epoch) THEN doc.final_epoch.fields[k] ELSE None

\* The value under key k of the last history entry, None when there is none.
LastEntryValue(doc, k) ==
    LET entries == IF doc.history.is = "list" THEN doc.history.entries
                   ELSE <<>>
    IN  IF entries # <<>> /\ IsDict(entries[Len(entries)])
        THEN entries[Len(entries)].fields[k] ELSE None

RECURSIVE FirstNonNull(_)
\* The first value of a sequence that is not None, None when all are.
FirstNonNull(values) ==
    IF values = <<>> THEN None
    ELSE IF values[1] # None THEN values[1]
    ELSE FirstNonNull(Tail(values))

\* parse_metrics_from_file has returned a MetricsResult.
Parsed == pc = "parsed" /\ ~raised /\ metrics # None

\* C23: for every target name the parsed test_accuracy is the first
\* non-null of the result object's test_accuracy, its best_test_accuracy,
\* final_epoch.test_accuracy and the last history entry's test_accuracy.
C23_TestAccuracyOrder ==
    Parsed =>
        metrics[1].result.test_accuracy
            = FirstNonNull(<<ResultObject(workspace).test_accuracy,
                             ResultObject(workspace).best_test_accuracy,
                             FinalEpochValue(workspace, "test_accuracy"),
                             LastEntryValue(workspace, "test_accuracy")>>)

\* The part of C23 that holds: when test_accuracy is not the target, the
\* order is followed up to final_epoch (the history is not read for it).
C23_OrderWithoutHistory ==
    (Parsed /\ config.target.name # "test_accuracy") =>
        metrics[1].result.test_accuracy
            = FirstNonNull(<<ResultObject(workspace).test_accuracy,
                             ResultObject(workspace).best_test_accuracy,
                             FinalEpochValue(workspace, "test_accuracy")>>)

\* The expected loss under key k: result object, final_epoch, last entry.
ExpectedLoss(doc, k) ==
    FirstNonNull(<<ResultObject(doc)[k], FinalEpochValue(doc, k),
                   LastEntryValue(doc, k)>>)

\* C24: the parsed train_loss and val_loss are each the first non-null of
\* the result object, final_epoch and the last history entry; with only a
\* history, the last entry's value is taken, not an earlier one.
C24_LossOrder ==
    Parsed =>
        /\ metrics[1].result.train_loss = ExpectedLoss(workspace, "train_loss")
        /\ metrics[1].result.val_loss = ExpectedLoss(workspace, "val_loss")

\* Only the history holds train_loss, with different first and last
\* entries, and the parsed train_loss is the last entry's.
C24_Witness ==
    /\ Parsed
    /\ ResultObject(workspace).train_loss = None
    /\ FinalEpochValue(workspace, "train_loss") = None
    /\ workspace.history.is = "list"
    /\ Len(workspace.history.entries) = 2
    /\ IsDict(workspace.history.entries[2])
    /\ workspace.history.entries[1].fields.train_loss
           = Some(SourceValue.first_entry)
    /\ metrics[1].result.train_loss = Some(SourceValue.last_entry)

\* The target-named value of a document: result object, final_epoch, last
\* history entry.
ExpectedTarget(doc, target) ==
    FirstNonNull(<<ResultObject(doc)[target.name],
                   FinalEpochValue(doc, target.name),
                   LastEntryValue(doc, target.name)>>)

\* C25: for a target name that is none of the four built-in fields, a
\* number found for that name in the document is in the parsed result
\* under that name.
C25_TargetNamePreserved ==
    (/\ Parsed
     /\ config.target.name \notin DOMAIN EmptyResult
     /\ IsNumber(ExpectedTarget(workspace, config.target))) =>
        /\ config.target.name \in DOMAIN metrics[1].result
        /\ Get(metrics[1].result, config.target.name)
               = ExpectedTarget(workspace, config.target)

\* The part of C25 that holds: a built-in target name keeps its number.
C25_BuiltInTargetPreserved ==
    (/\ Parsed
     /\ config.target.name \in DOMAIN EmptyResult
     /\ IsNumber(ExpectedTarget(workspace, config.target))) =>
        Get(metrics[1].result, config.target.name)
            = ExpectedTarget(workspace, config.target)

\* C26: parse_metrics_from_file never raises; it returns None for a missing
\* file and for a file that is not valid JSON.
C26_NeverRaises ==
    pc = "parsed" =>
        /\ ~raised
        /\ workspace.kind \in {"absent", "malformed"} => metrics = None

\* The part of C26 that holds: no file and invalid JSON give None, and an
\* object with numeric values gives a MetricsResult.
C26_MissingOrInvalidIsNone ==
    pc = "parsed" =>
        /\ workspace.kind \in {"absent", "malformed"} =>
               ~raised /\ metrics = None
        /\ (/\ workspace.kind = "object"
            /\ \A k \in MetricKeys : ResultObject(workspace)[k] # Text) =>
               ~raised /\ metrics # None

\* ---------------------------------------------------------- C27 .. C28
\* C27: both runners return the five-tuple for every outcome of the
\* command, a command that cannot be started included, and never raise.
C27_AlwaysFiveTuple ==
    /\ runner.pc # "raised"
    /\ runner.pc = "done" => runner.result # None

\* The part of C27 that holds: once the command has started, the call does
\* not raise and ends with the five-tuple, whose flag and exit code are
\* those of the subprocess.
C27_StartedReturnsTuple ==
    runner.startable =>
        /\ runner.pc # "raised"
        /\ runner.pc = "done" =>
               /\ runner.result # None
               /\ runner.result[1].returncode = runner.returncode[1]
               /\ runner.result[1].timed_out = runner.timed_out

\* The runner waits and only the subprocess or the clock can wake it.
RunnerBlocked ==
    /\ runner.proc = "running"
    /\ \/ runner.pc = "wait" /\ runner.now < runner.wait_until
       \/ /\ runner.pc = "select"
          /\ runner.out = "none"
          /\ runner.now < runner.wait_until
       \/ runner.pc = "readline" /\ runner.out = "partial"

\* C28: a subprocess that ended by itself before the deadline is reported
\* with timed_out = False, and the runner never waits on a running
\* subprocess once the elapsed time exceeds timeout_seconds (it kills it).
C28_KillOnTimeoutOnly ==
    /\ (/\ runner.pc = "done"
        /\ runner.proc = "exited"
        /\ runner.exited_at[1] < runner.timeout_seconds) =>
           ~runner.result[1].timed_out
    /\ ~(RunnerBlocked /\ runner.now > runner.timeout_seconds)

\* The part of C28 about wait slices: no wait slice starts after the
\* deadline has passed.
C28_NoSliceAfterDeadline ==
    [][(runner.pc = "check" /\ runner'.pc \in {"wait", "select"}) =>
           runner.now <= runner.timeout_seconds]_vars

\* The part of C28 about the kill: a subprocess is killed only at a deadline
\* check after the deadline, and the call then returns timed_out = True; a
\* call that found the subprocess ended in a wait returns timed_out = False.
C28_KilledIsTimedOut ==
    /\ runner.proc = "killed" =>
           /\ runner.timed_out
           /\ runner.now >= runner.timeout_seconds
    /\ runner.timed_out => runner.now >= runner.timeout_seconds

\* ---------------------------------------------------------------- C29
\* The snapshot the state calls its best.
BestSnapshot == state.history[state.best_cycle]

C30_Step ==
    /\ pc' = "loop" => pc \in {"idle", "decide"}
    /\ pc = "loop" =>
           IF should_stop(state, config)
           THEN pc' = "finally" /\ cycle_num' = cycle_num
           ELSE pc' = "phase1" /\ cycle_num' = state.current_cycle + 1
    /\ pc' = "phase1" => pc = "loop"
    /\ pc' = "snapshot" => pc = "phase1"
    /\ pc' = "phase2" => pc = "snapshot"
    /\ pc' = "capture" => pc = "phase2"
    /\ pc' = "phase3" => pc = "capture"
    /\ pc' = "append" => pc = "phase3"
    /\ pc' = "decide" => pc = "append"
    /\ pc # "loop" => cycle_num' = cycle_num

\* C30: in every iteration the stopping policy is asked once, at the top
\* of the loop and before any phase; when it says stop no phase runs; else
\* the steps follow in the order codegen, source snapshot and architecture
\* log, training, model-artifact capture, analysis, append-and-persist,
\* decision check, and the next iteration starts only after the decision
\* check.
C30_StepOrder == [][C30_Step]_vars

\* The second cycle has reached its decision check, all steps of both
\* cycles having run.
C30_Witness ==
    /\ pc = "decide"
    /\ cycle_num = 2
    /\ Len(History) = 2
    /\ ~raised


\* C31: a runner returns only after its subprocess has terminated, also when
\* the subprocess was killed on timeout, so no subprocess launched by a phase
\* is alive once the phase's runner call has returned.
C31_ReturnsAfterTermination ==
    runner.pc \in {"return", "done"} => ~runner.alive

C31_Witness ==
    /\ runner.pc = "done"
    /\ runner.proc = "killed"
    /\ runner.result[1].timed_out
    /\ ~runner.alive


\* The last number of a line, None for a line without a number.
LastNumber(line) ==
    IF findall(line) = <<>> THEN None
    ELSE findall(line)[Len(findall(line))]

\* The last number of the last line of the output that names the metric
\* and holds a number, None without such a line.
RECURSIVE LastNamed(_, _)
LastNamed(output, name) ==
    IF output = <<>> THEN None
    ELSE LET line == output[Len(output)]
         IN  IF name \in line.mentions /\ LastNumber(line) # None
             THEN LastNumber(line)
             ELSE LastNamed(SubSeq(output, 1, Len(output) - 1), name)

\* C32: parse_metrics_from_output assigns to a metric the last numeric
\* token of a line that names it, for the target metric and for the
\* test_accuracy and val_accuracy literals alike, whatever the layout of
\* the line (lines naming one metric at most).
C32_LastNumericToken ==
    (/\ pc = "parsed"
     /\ train.stdout \in Outputs
     /\ \A i \in DOMAIN train.stdout :
            Cardinality(train.stdout[i].mentions) <= 1)
    => \A name \in {"test_accuracy", "val_accuracy", config.target.name}
                     \cap DOMAIN EmptyResult :
          metrics[1].result[name] = LastNamed(train.stdout, name)


\* A file of the workspace as the analysis subprocess of this cycle left
\* it: absent unless that subprocess wrote it.
OwnFile(file, written, cycle) == IF written = cycle THEN file ELSE "absent"

\* C33: the recommendations and the decision recorded for cycle n are
\* built only from the files written by cycle n's analysis subprocess, or
\* from the fallback: a file left by the analysis phase of an earlier
\* cycle is never used.
C33_OnlyOwnFiles ==
    pc = "append" =>
        /\ analysis.action =
               phase3_decision(metrics, config.target,
                               OwnFile(artifacts.decision,
                                       artifacts.decision_cycle, cycle_num))
        /\ analysis.recommendations =
               phase3_recommendations(metrics, config.target,
                                      OwnFile(artifacts.recommendations,
                                              artifacts.recommendations_cycle,
                                              cycle_num))


\* C34: run() starts a cycle only while current_cycle < max_cycles: with
\* max_cycles = 0, or on a reloaded state whose current_cycle has reached
\* max_cycles, no cycle is executed.
C34_StartsBelowMax ==
    BeforeAppend => state.current_cycle < config.max_cycles


\* C35: run() always terminates with status "completed", for every
\* sequence of metric values and decisions; when every training run fails
\* (no target value) and every decision is "continue" the stopping policy
\* does not fire and the run ends at max_cycles.
C35_Terminates == <>(pc = "done" /\ state.status = "completed")

\* A finished run of MaxCycles cycles without any target value, all decided
\* "continue", ended by the max_cycles check.
C35_Witness ==
    /\ pc = "done"
    /\ state.status = "completed"
    /\ exit_reason = "max_cycles"
    /\ Len(History) = MaxCycles
    /\ AllContinue
    /\ \A i \in 1..Len(History) : TargetValue(History[i]) = None


\* C36: in every state of a run started from a fresh state the history has
\* current_cycle snapshots, the i-th snapshot has cycle_number i, and its
\* metrics carry the same cycle number.
C36_HistoryContiguous ==
    /\ Len(History) = state.current_cycle
    /\ \A i \in 1..Len(History) :
          /\ History[i].cycle_number = i
          /\ History[i].metrics.cycle = History[i].cycle_number

\* The third cycle is under way after two recorded ones.
C36_Witness ==
    /\ pc = "phase3"
    /\ cycle_num = MaxCycles
    /\ Len(History) = MaxCycles - 1
    /\ state.current_cycle = MaxCycles - 1


\* C37: in every state best_cycle is 0 or the position of a snapshot of
\* history, and then that snapshot's target value is a number and equals
\* best_metric: the index and the final summary, which read
\* history[best_cycle - 1], describe the snapshot that produced best_metric.
C37_BestCycleInHistory ==
    \/ state.best_cycle = 0
    \/ /\ state.best_cycle \in 1..Len(state.history)
       /\ LET best_snapshot == state.history[state.best_cycle]
          IN  /\ TargetValue(best_snapshot) = Some(state.best_metric)
              /\ best_snapshot.cycle_number = state.best_cycle

\* A finished run whose best snapshot is the first one, not the last.
C37_Witness ==
    /\ pc = "done"
    /\ Len(History) = MaxCycles
    /\ state.best_cycle = 1
    /\ TargetValue(History[MaxCycles]) # None
    /\ state.best_metric = TargetValue(History[1])[1]


\* C38: for every content of analysis.md, recommendations.json and
\* decision.json and every metrics value, the analysis built inline by
\* _phase3_analysis equals the one merge_analysis_with_fallback builds from
\* the fallback and the loaded files: same summary, same recommendations,
\* same decision.
C38_InlineEqualsUtils ==
    pc = "append" => analysis.inline = analysis.utils


\* C39: with no_improvement_stop_cycles = 1 the stopping policy never
\* fires: should_stop is false for every history, a window of one snapshot
\* having no delta between consecutive values.
C39_WindowOneNeverStops ==
    config.no_improvement_stop_cycles = 1 =>
        /\ ~should_stop(state, config)
        /\ exit_reason # "policy"

\* should_stop has answered for a window of one on a history of equal
\* numeric target values.
C39_Witness ==
    /\ config.no_improvement_stop_cycles = 1
    /\ pc = "checked"
    /\ exit_reason = "None"
    /\ Len(History) >= 2
    /\ \A i \in 1..Len(History) : TargetValue(History[i]) = Some(1)


\* One step of an Orchestrator constructed against a state file.
C40_Step ==
    /\ (pc = "new" /\ pc' = "idle" /\ Unreadable(disk)) =>
          /\ ~raised'
          /\ state' = FreshState
          /\ state'.current_cycle = 0
          /\ state'.history = <<>>
          /\ state'.status = "idle"
    /\ (pc = "idle" /\ disk' # disk) =>
          /\ disk' = save_state(state)
          /\ Len(disk'[1].history) = Len(state.history)

\* C40: constructing an Orchestrator against a state file that exists but
\* cannot be parsed or validated does not raise and gives a fresh state
\* (current_cycle 0, empty history, status "idle"); the next save replaces
\* the file by the document of the new state, without the earlier history.
C40_UnreadableStartsFresh == [][C40_Step]_vars

\* An Orchestrator has been constructed against a state file of PriorCycles
\* snapshots that is valid JSON but fails validation: its state is fresh.
C40_Witness ==
    /\ pc = "idle"
    /\ Unreadable(disk)
    /\ Parses(disk[1])
    /\ Len(disk[1].history) = PriorCycles
    /\ ~raised
    /\ state = FreshState

====
